---- MODULE Spec2Model ----
(***************************************************************************)
(* Verification model of the mosquito-surveillance statistics pipeline:    *)
(* the PCA step and the cluster-count selection of PCAClusteringAnalyzer,  *)
(* the cluster/outcome and city/outcome significance tests, and the        *)
(* cross-city predictor comparison.                                        *)
(*                                                                         *)
(* Real numbers are modelled on integer grids.  A float64 value is a       *)
(* record [nan, v]: either NaN or the integer v.  Explained-variance       *)
(* ratios are counted in units of 1/Scale; a float64 sum of ratios equals  *)
(* 1.0 only up to rounding (ten ratios of 0.1 cumulate to                  *)
(* 0.9999999999999999), which the grid shows as a total within RoundErr    *)
(* units of Scale.                                                         *)
(***************************************************************************)
EXTENDS Integers, Sequences, FiniteSets, TLC

VARIABLES
    pc,               \* position of the modelled routine
    X_scaled,         \* the standardized matrix: its shape and distinct rows
    index_trend,      \* per run: how the two unselected indices vary with k
    variance_target,  \* config.PCA_VARIANCE_TARGET as seen by _perform_pca
    pca_results,      \* per run: what _perform_pca returned
    k_idx,            \* position of the loop over config.CLUSTERING_K_RANGE
    metrics_results,  \* per run: the list the loop appends to
    results,          \* per run: what _optimize_clustering returned
    error,            \* the exception that ended the analysis, if any
    df_clustered,     \* the clustered table: its outcome columns, its k
    t_idx,            \* position of the loop over config.TARGETS
    test_results,     \* what _test_cluster_outcome_relationships stores
    calls,            \* the library calls made: kruskal outcomes, dunn targets
    city_data,        \* the cities load_city_data() found
    kruskal_results,  \* rows returned by perform_kruskal_wallis
    dunn_results,     \* matrices returned by perform_dunn_posthoc
    saved,            \* files written by save_results
    city_results,     \* the per-city results handed to the comparator
    predictors,       \* what _identify_predictors returned
    df,               \* the city table given to StatisticalAnalyzer.analyze
    s_idx,            \* position of analyze's loop over config.TARGETS
    correlations,     \* Series returned by calculate_correlation
    p_values,         \* Series returned by calculate_correlation
    spearman_calls,   \* per feature: the rows handed to stats.spearmanr
    corrected_alpha,  \* threshold returned by bonferroni_correction
    significant,      \* flags returned by bonferroni_correction
    top_pos,          \* first table returned by _get_top_correlations
    top_neg,          \* second table returned by _get_top_correlations
    stat_results,     \* the results dict of StatisticalAnalyzer.analyze
    stat_error,       \* the exception that ended analyze, if any
    lag_simple_df,    \* simple-lag correlation matrix, one row per variable
    lag_rolling_df,   \* rolling-window correlation matrix
    optimal_lags,     \* rows returned by _find_optimal_lags
    lag_error,        \* the exception that ended _find_optimal_lags, if any
    run_config,       \* the configuration values the pipeline runs under
    c_idx,            \* position of main's loops over config.CITY_ORDER
    stage,            \* the stage of run_city_analysis in progress
    city_dataframes,  \* the cities main has loaded
    all_city_results, \* per analysed city: the analyses in its results
    outputs,          \* the output directories written so far
    run_error,        \* the exception that ended main, if any
    run_results,      \* results of run_city_analysis: the analyses that returned
    lag_df,           \* the city table given to LagRollingAnalyzer.analyze
    l_idx,            \* position of its loop over config.TARGETS
    lag_results,      \* the results dict of LagRollingAnalyzer.analyze
    df_columns,       \* df.columns of the table given to the DataLoader
    feature_cols,     \* list returned by get_feature_columns
    groups,           \* dict returned by get_feature_groups
    tsne_X,           \* the shape of X_pca as given to _create_tsne_plot
    tsne_plot,        \* per run: the random streams the plot drew from
    tsne_error,       \* the exception that ended _create_tsne_plot, if any
    csv_columns,      \* the header of the CSV file before the call
    data_file,        \* content of the data file
    backup,           \* content of the backup file
    backup_path,      \* whether the local backup_path is bound
    returned,         \* what remove_unnamed_column returned
    restore_failed,   \* whether a restore from the backup raised
    analyzer,         \* the analyzer instance: its class
    self_results,     \* analyzer.results
    self_city_results,\* analyzer.city_results
    files,            \* per output directory: the results written there
    raised,           \* the exception the last call on the instance raised
    completed         \* the analyze calls that returned on the instance

----------------------------------------------------------------------------
(* Bounds of the model *)

Scale == 10
RoundErr == 1
MaxComp == 3
MaxSil == 1
MaxFeat == 2
MaxTests == 3
MaxRows == 2
MaxShort == 3
MaxExtra == 2
MaxLagVars == 2
MaxMargin == 2
MaxCalls == 2

(* Program constants, in the units above *)

RANDOM_SEED == 42
CLUSTERING_K_MIN == 2
CLUSTERING_K_MAX == 10

\* config.PCA_VARIANCE_TARGET = 0.90
PCA_VARIANCE_TARGET == (9 * Scale) \div 10

----------------------------------------------------------------------------
(* float64 values *)

F(x) == [nan |-> FALSE, v |-> x]
NaN == [nan |-> TRUE, v |-> 0]

\* a >= b on floats: any comparison with NaN is False
FGe(a, b) == ~a.nan /\ ~b.nan /\ a.v >= b.v
FLt(a, b) == ~a.nan /\ ~b.nan /\ a.v < b.v
FGt(a, b) == ~a.nan /\ ~b.nan /\ a.v > b.v
FAdd(a, b) == IF a.nan \/ b.nan THEN NaN ELSE F(a.v + b.v)

Min2(a, b) == IF a <= b THEN a ELSE b

\* np.cumsum over a sequence of floats
RECURSIVE CumSum(_)
CumSum(s) ==
    IF Len(s) = 0 THEN << >>
    ELSE LET front == CumSum(SubSeq(s, 1, Len(s) - 1))
         IN  Append(front,
                    IF Len(front) = 0 THEN s[Len(s)]
                    ELSE FAdd(front[Len(front)], s[Len(s)]))

\* np.argmax over a boolean array: the 0-based index of the first True,
\* and 0 when no element is True
ArgMaxBool(b) ==
    IF \E i \in 1..Len(b) : b[i]
    THEN (CHOOSE i \in 1..Len(b) : b[i] /\ \A j \in 1..(i - 1) : ~b[j]) - 1
    ELSE 0

----------------------------------------------------------------------------
(* PCA().fit(X_scaled).explained_variance_ratio_ *)

RECURSIVE SumSeq(_)
SumSeq(s) == IF Len(s) = 0 THEN 0 ELSE s[1] + SumSeq(Tail(s))

\* Descending non-negative ratios of the given length with at most rank
\* non-zero entries.  A single non-zero ratio is x / x = 1.0 exactly; the
\* float64 total of several is 1 up to rounding.
Spectra(len, rank) ==
    { s \in [1..len -> 0..(Scale + RoundErr)] :
        /\ \A i \in 1..(len - 1) : s[i] >= s[i + 1]
        /\ \A i \in 1..len : i > rank => s[i] = 0
        /\ SumSeq(s) >= Scale - RoundErr
        /\ SumSeq(s) <= Scale + RoundErr
        /\ (len = 1 \/ s[2] = 0) => SumSeq(s) = Scale }

\* The ratios a full PCA fit can report for a matrix of this shape.  With one
\* sample or with all rows identical every variance is 0 (or 0/0) and the
\* ratio explained_variance_ / total_var is NaN in every position.
EVRatios(X) ==
    LET len == Min2(X.n_samples, X.n_features)
    IN  IF X.n_distinct <= 1
        THEN { [i \in 1..len |-> NaN] }
        ELSE { [i \in 1..len |-> F(s[i])] : s \in Spectra(len, X.n_distinct - 1) }

\* lines 177-178: cumvar and n_components_target
NComponentsTarget(cumvar, target) ==
    ArgMaxBool([i \in 1..Len(cumvar) |-> FGe(cumvar[i], F(target))]) + 1

\* _perform_pca on a fit whose full explained_variance_ratio_ is evr
PerformPCAResult(evr, target, X) ==
    LET cumvar == CumSum(evr)
        n == NComponentsTarget(cumvar, target)
    IN  [ n_components |-> n,
          explained_variance_ratio |-> SubSeq(evr, 1, n),
          cumulative_variance |-> CumSum(SubSeq(evr, 1, n)),
          total_variance_explained |-> cumvar[n],
          all_explained_variance |-> evr,
          X_pca |-> [ n_samples |-> X.n_samples,
                      n_columns |-> n,
                      n_distinct |-> X.n_distinct ] ]

----------------------------------------------------------------------------
(* Random state.  An estimator built with an integer random_state draws    *)
(* from a stream fixed by that integer; built without one it draws from    *)
(* numpy's global generator, whose state differs from run to run.          *)

Runs == {1, 2}

Seeded(n) == [seeded |-> TRUE, seed |-> n]
Unseeded == [seeded |-> FALSE, seed |-> 0]

RngStream(random_state, run) ==
    IF random_state.seeded THEN << "seed", random_state.seed >>
    ELSE << "global", run >>

\* lines 173 and 184: PCA(random_state=config.RANDOM_SEED)
PCARandomState == Seeded(RANDOM_SEED)

KMeansRandomStateNone == Unseeded

\* line 219: KMeans(..., random_state=config.RANDOM_SEED)
KMeansRandomState == Seeded(RANDOM_SEED)

----------------------------------------------------------------------------
(* Cluster Selector: _optimize_clustering *)

CLUSTERING_K_RANGE == [i \in 1..(CLUSTERING_K_MAX - CLUSTERING_K_MIN + 1) |->
                          CLUSTERING_K_MIN + i - 1]

\* Silhouette on a grid of MaxSil + 1 float64 values.  The grid unit is the
\* floating tolerance of a tie test: two values one unit apart are equal up
\* to tolerance and are not equal.
SilVals == 0..MaxSil

NoException == "none"

\* KMeans(n_clusters=k).fit_predict(X_pca): sklearn refuses fewer samples
\* than clusters; otherwise the labels take min(k, distinct rows) values
KMeansRaises(X_pca, k) == X_pca.n_samples < k
KMeansNLabels(X_pca, k) == Min2(k, X_pca.n_distinct)

\* silhouette_score, calinski_harabasz_score and davies_bouldin_score all
\* refuse a labelling with fewer than 2 or more than n_samples - 1 labels
ScoreRaises(X_pca, n_labels) == n_labels < 2 \/ n_labels > X_pca.n_samples - 1

\* The two indices that are reported but not selected on.  trend "up" makes
\* both favour a large k, "down" a small k.
CalinskiHarabasz(trend, k) ==
    F(IF trend = "up" THEN k ELSE CLUSTERING_K_MIN + CLUSTERING_K_MAX - k)
DaviesBouldin(trend, k) ==
    F(IF trend = "up" THEN CLUSTERING_K_MIN + CLUSTERING_K_MAX - k ELSE k)

CandidateOutcomeGuarded(X_pca, k, stream, sil, trend) ==
    IF KMeansRaises(X_pca, k) \/ ScoreRaises(X_pca, KMeansNLabels(X_pca, k))
    THEN [ raised |-> FALSE,
           row |-> [ k |-> k, silhouette |-> F(0),
                     calinski_harabasz |-> F(0), davies_bouldin |-> F(0),
                     labels |-> [ k |-> k, stream |-> stream,
                                  n_labels |-> KMeansNLabels(X_pca, k) ] ] ]
    ELSE [ raised |-> FALSE,
           row |-> [ k |-> k, silhouette |-> F(sil),
                     calinski_harabasz |-> CalinskiHarabasz(trend, k),
                     davies_bouldin |-> DaviesBouldin(trend, k),
                     labels |-> [ k |-> k, stream |-> stream,
                                  n_labels |-> KMeansNLabels(X_pca, k) ] ] ]

\* lines 215-235, one pass of the loop body: fit, score, and the row appended
\* to metrics_results; an exception of the library leaves the loop.  sil is
\* the Silhouette level the fit drawn from this stream reaches.
CandidateOutcome(X_pca, k, stream, sil, trend) ==
    IF KMeansRaises(X_pca, k) \/ ScoreRaises(X_pca, KMeansNLabels(X_pca, k))
    THEN [ raised |-> TRUE, row |-> << >> ]
    ELSE [ raised |-> FALSE,
           row |-> [ k |-> k, silhouette |-> F(sil),
                     calinski_harabasz |-> CalinskiHarabasz(trend, k),
                     davies_bouldin |-> DaviesBouldin(trend, k),
                     labels |-> [ k |-> k, stream |-> stream,
                                  n_labels |-> KMeansNLabels(X_pca, k) ] ] ]

\* Series.idxmax(): the 0-based row label of the first occurrence of the
\* maximum, NaN entries skipped; -1 stands for "no maximum" (every entry
\* NaN), where pandas raises or returns NaN and the .loc lookup raises
IdxMax(col) ==
    IF \A i \in 1..Len(col) : col[i].nan THEN -1
    ELSE (CHOOSE i \in 1..Len(col) :
            /\ ~col[i].nan
            /\ \A j \in 1..Len(col) : col[j].nan \/ col[j].v <= col[i].v
            /\ \A j \in 1..(i - 1) : col[j].nan \/ col[j].v < col[i].v) - 1

Column(rows, name) == [i \in 1..Len(rows) |-> rows[i][name]]

\* selecting on the variance-ratio index instead of Silhouette
OptimalIdxCalinski(rows) == IdxMax(Column(rows, "calinski_harabasz"))

\* keeping the last maximum instead of the first
OptimalIdxLastMax(rows) ==
    LET col == Column(rows, "silhouette")
    IN  IF \A i \in 1..Len(col) : col[i].nan THEN -1
        ELSE (CHOOSE i \in 1..Len(col) :
                /\ ~col[i].nan
                /\ \A j \in 1..Len(col) : col[j].nan \/ col[j].v <= col[i].v
                /\ \A j \in (i + 1)..Len(col) :
                      col[j].nan \/ col[j].v < col[i].v) - 1

\* line 241: metrics_df['silhouette'].idxmax()
OptimalIdx(rows) == IdxMax(Column(rows, "silhouette"))

DropLabels(rows) ==
    [i \in 1..Len(rows) |->
        [ k |-> rows[i].k, silhouette |-> rows[i].silhouette,
          calinski_harabasz |-> rows[i].calinski_harabasz,
          davies_bouldin |-> rows[i].davies_bouldin ]]

\* lines 242-252: the result built around optimal_idx
ClusteringResults(rows, optimal_idx) ==
    [ clustering_metrics |-> DropLabels(rows),
      optimal_k |-> rows[optimal_idx + 1].k,
      optimal_labels |-> rows[optimal_idx + 1].labels,
      optimal_silhouette |-> rows[optimal_idx + 1].silhouette,
      optimal_calinski |-> rows[optimal_idx + 1].calinski_harabasz,
      optimal_davies |-> rows[optimal_idx + 1].davies_bouldin ]

NoResult == [ optimal_k |-> 0 ]

----------------------------------------------------------------------------
pca_vars == << X_scaled, index_trend, variance_target, pca_results, k_idx,
              metrics_results, results, error >>
tester_vars == << df_clustered, t_idx, test_results, calls >>
city_vars == << city_data, kruskal_results, dunn_results, saved >>

compare_vars == << city_results, predictors >>
stat_vars == << df, s_idx, correlations, p_values, spearman_calls,
               corrected_alpha, significant, top_pos, top_neg, stat_results,
               stat_error >>

lag_vars == << lag_simple_df, lag_rolling_df, optimal_lags, lag_error, lag_df,
              l_idx, lag_results >>
run_vars == << run_config, c_idx, stage, city_dataframes, all_city_results,
              outputs, run_error, run_results >>
loader_vars == << df_columns, feature_cols, groups >>
tsne_vars == << tsne_X, tsne_plot, tsne_error >>
file_vars == << csv_columns, data_file, backup, backup_path, returned,
               restore_failed >>
instance_vars == << analyzer, self_results, self_city_results, files, raised,
                   completed >>
ext_vars == << loader_vars, tsne_vars, file_vars, instance_vars >>

vars == << pc, pca_vars, tester_vars, city_vars, compare_vars, stat_vars,
          lag_vars, run_vars, ext_vars >>

(* PCAClusteringAnalyzer.analyze, steps 1 to 3, run twice on one table *)

LargeN == CLUSTERING_K_MAX + 2

\* the cleaned table df_clean[features]: no row, one row, two rows, many rows
Shapes(nf) ==
    { [ n_samples |-> n, n_features |-> f, n_distinct |-> d ] :
        n \in {0, 1, 2, LargeN}, f \in 1..nf, d \in {0, 1, 2, LargeN} }

TableShapes(nf) ==
    { X \in Shapes(nf) : /\ X.n_distinct \in {Min2(1, X.n_samples), X.n_samples} }

Raise(e) ==
    /\ pc' = "error"
    /\ error' = e

\* lines 97-98: StandardScaler().fit_transform(X) refuses an empty table
Standardize ==
    /\ pc = "standardize"
    /\ IF X_scaled.n_samples = 0
       THEN Raise("ValueError")
       ELSE pc' = "pca" /\ error' = error
    /\ UNCHANGED << X_scaled, index_trend, variance_target, pca_results, k_idx,
                    metrics_results, results, tester_vars, city_vars, compare_vars, stat_vars,
                    lag_vars, run_vars, ext_vars >>

PCAStreams == { RngStream(PCARandomState, r) : r \in Runs }

\* line 103: _perform_pca(X_scaled)
PerformPCA ==
    /\ pc = "pca"
    /\ \E fit \in [PCAStreams -> EVRatios(X_scaled)] :
          pca_results' = [r \in Runs |->
              PerformPCAResult(fit[RngStream(PCARandomState, r)],
                               variance_target, X_scaled)]
    /\ pc' = "cluster"
    /\ UNCHANGED << X_scaled, index_trend, variance_target, k_idx,
                    metrics_results, results, error, tester_vars, city_vars, compare_vars, stat_vars,
                    lag_vars, run_vars, ext_vars >>

KMeansStreams == { RngStream(KMeansRandomState, r) : r \in Runs }

\* lines 214-237: one iteration of the loop over CLUSTERING_K_RANGE
ScoreCandidate ==
    /\ pc = "cluster"
    /\ k_idx <= Len(CLUSTERING_K_RANGE)
    /\ \E fit \in [KMeansStreams -> SilVals] :
         LET out == [r \in Runs |->
                       CandidateOutcome(pca_results[r].X_pca,
                                        CLUSTERING_K_RANGE[k_idx],
                                        RngStream(KMeansRandomState, r),
                                        fit[RngStream(KMeansRandomState, r)],
                                        index_trend[r])]
         IN  IF \E r \in Runs : out[r].raised
             THEN /\ Raise("ValueError")
                  /\ UNCHANGED << k_idx, metrics_results >>
             ELSE /\ metrics_results' =
                        [r \in Runs |-> Append(metrics_results[r], out[r].row)]
                  /\ k_idx' = k_idx + 1
                  /\ UNCHANGED << pc, error >>
    /\ UNCHANGED << X_scaled, index_trend, variance_target, pca_results, results,
                    tester_vars, city_vars, compare_vars, stat_vars,
                    lag_vars, run_vars, ext_vars >>

\* lines 239-254: select the optimal k and return
SelectOptimal ==
    /\ pc = "cluster"
    /\ k_idx > Len(CLUSTERING_K_RANGE)
    /\ IF \E r \in Runs : OptimalIdx(metrics_results[r]) < 0
       THEN /\ Raise("KeyError")
            /\ UNCHANGED results
       ELSE /\ results' = [r \in Runs |->
                  ClusteringResults(metrics_results[r],
                                    OptimalIdx(metrics_results[r]))]
            /\ pc' = "done"
            /\ UNCHANGED error
    /\ UNCHANGED << X_scaled, index_trend, variance_target, pca_results, k_idx,
                    metrics_results, tester_vars, city_vars, compare_vars, stat_vars,
                    lag_vars, run_vars, ext_vars >>

\* the variables of a routine that is not running
IdlePCA ==
    /\ X_scaled = [ n_samples |-> 0, n_features |-> 1, n_distinct |-> 0 ]
    /\ index_trend = [r \in Runs |-> "up"]
    /\ variance_target = PCA_VARIANCE_TARGET
    /\ pca_results = [r \in Runs |-> << >>]
    /\ k_idx = 1
    /\ metrics_results = [r \in Runs |-> << >>]
    /\ results = [r \in Runs |-> NoResult]
    /\ error = NoException

IdleTester ==
    /\ df_clustered = [ columns |-> {}, optimal_k |-> CLUSTERING_K_MIN ]
    /\ t_idx = 1
    /\ test_results = << >>
    /\ calls = [ kruskal |-> << >>, dunn |-> {} ]

IdleCity ==
    /\ city_data = {}
    /\ kruskal_results = << >>
    /\ dunn_results = << >>
    /\ saved = {}

IdleCompare ==
    /\ city_results = << >>
    /\ predictors = << >>

IdleLag ==
    /\ lag_simple_df = << >>
    /\ lag_rolling_df = << >>
    /\ optimal_lags = << >>
    /\ lag_error = NoException
    /\ lag_df = [ columns |-> {}, lag_columns |-> {}, nan_weeks |-> {} ]
    /\ l_idx = 1
    /\ lag_results = << >>

IdleRun ==
    /\ run_config = [ k_min |-> CLUSTERING_K_MIN, k_max |-> CLUSTERING_K_MAX,
                      variance_target |-> PCA_VARIANCE_TARGET ]
    /\ c_idx = 1
    /\ stage = 1
    /\ city_dataframes = {}
    /\ all_city_results = << >>
    /\ outputs = {}
    /\ run_error = [ city |-> "none", stage |-> "none", exception |-> NoException ]
    /\ run_results = {}

IdleLoader ==
    /\ df_columns = << >>
    /\ feature_cols = << >>
    /\ groups = << >>

IdleTsne ==
    /\ tsne_X = << >>
    /\ tsne_plot = << >>
    /\ tsne_error = NoException

\* no file at the path
MissingFile == [ exists |-> FALSE, columns |-> {}, intact |-> TRUE ]

IdleFile ==
    /\ csv_columns = {}
    /\ data_file = MissingFile
    /\ backup = MissingFile
    /\ backup_path = FALSE
    /\ returned = "none"
    /\ restore_failed = FALSE

IdleInstance ==
    /\ analyzer = "none"
    /\ self_results = << >>
    /\ self_city_results = << >>
    /\ files = << >>
    /\ raised = [ op |-> "none", exc |-> NoException ]
    /\ completed = 0

IdleExt ==
    /\ IdleLoader
    /\ IdleTsne
    /\ IdleFile
    /\ IdleInstance

IdleStat ==
    /\ df = [ n_rows |-> 0, features |-> << >>, columns |-> {},
              notna_feature |-> << >>, notna_target |-> << >> ]
    /\ s_idx = 1
    /\ correlations = << >>
    /\ p_values = << >>
    /\ spearman_calls = << >>
    /\ corrected_alpha = [ num |-> 0, den |-> 1 ]
    /\ significant = << >>
    /\ top_pos = << >>
    /\ top_neg = << >>
    /\ stat_results = << >>
    /\ stat_error = NoException

InitCommon ==
    /\ index_trend \in [Runs -> {"up", "down"}]
    /\ pca_results = [r \in Runs |-> << >>]
    /\ k_idx = 1
    /\ metrics_results = [r \in Runs |-> << >>]
    /\ results = [r \in Runs |-> NoResult]
    /\ error = NoException
    /\ IdleTester
    /\ IdleCity
    /\ IdleCompare
    /\ IdleStat
    /\ IdleLag
    /\ IdleRun
    /\ IdleExt

\* analyze() on a one-feature table with the configured variance target
Init ==
    /\ pc = "standardize"
    /\ X_scaled \in TableShapes(1)
    /\ variance_target = PCA_VARIANCE_TARGET
    /\ InitCommon

Next ==
    \/ Standardize
    \/ PerformPCA
    \/ ScoreCandidate
    \/ SelectOptimal

Spec == Init /\ [][Next]_vars

\* _perform_pca alone, on tables of up to MaxComp features, for every
\* variance target of the grid
InitPCA ==
    /\ pc = "pca"
    /\ X_scaled \in { X \in TableShapes(MaxComp) : X.n_samples > 1 }
    /\ variance_target \in 1..Scale
    /\ InitCommon

SpecPCA == InitPCA /\ [][PerformPCA]_vars

----------------------------------------------------------------------------
(* Group Significance Tester on cluster labels:                            *)
(* _test_cluster_outcome_relationships.  p-values are counted in units of  *)
(* 1/1000.                                                                 *)

TARGETS == << "pos", "egg" >>

\* line 331: the literal 0.05
KRUSKAL_ALPHA == 50

PGrid == {0, 49, 50, 51, 1000}

\* stats.kruskal(*groups): a statistic and a p-value, both NaN when a group
\* is empty
KruskalOutcomes ==
    { [ h |-> F(1000 - p), p |-> F(p) ] : p \in PGrid } \cup { [ h |-> NaN, p |-> NaN ] }

None == [ none |-> TRUE ]

\* posthoc_dunn(..., p_adjust='bonferroni'): a symmetric n x n matrix of
\* adjusted p-values, here with one value in every off-diagonal cell
DunnCells == { F(0), F(1000), NaN }
DunnMatrix(n, cell) ==
    [ none |-> FALSE, n |-> n, diagonal |-> F(1000), off_diagonal |-> cell ]

OmnibusSignificantLe(p) == FGe(F(KRUSKAL_ALPHA), p)

\* line 331: if p_value < 0.05
OmnibusSignificant(p) == FLt(p, F(KRUSKAL_ALPHA))

\* lines 314-347: one iteration of the loop over config.TARGETS
TestOutcome ==
    /\ pc = "test"
    /\ t_idx <= Len(TARGETS)
    /\ LET target == TARGETS[t_idx]
       IN  IF target \notin df_clustered.columns
           THEN UNCHANGED << test_results, calls >>
           ELSE \E kw \in KruskalOutcomes :
                  IF OmnibusSignificant(kw.p)
                  THEN \E cell \in DunnCells :
                         /\ test_results' = test_results @@ (target :>
                              [ kruskal_h |-> kw.h, kruskal_p |-> kw.p,
                                dunn_pvalues |->
                                  DunnMatrix(df_clustered.optimal_k, cell) ])
                         /\ calls' = [ kruskal |-> calls.kruskal @@ (target :> kw),
                                       dunn |-> calls.dunn \cup {target} ]
                  ELSE /\ test_results' = test_results @@ (target :>
                              [ kruskal_h |-> kw.h, kruskal_p |-> kw.p,
                                dunn_pvalues |-> None ])
                       /\ calls' = [ kruskal |-> calls.kruskal @@ (target :> kw),
                                     dunn |-> calls.dunn ]
    /\ t_idx' = t_idx + 1
    /\ UNCHANGED << pc, df_clustered, pca_vars, city_vars, compare_vars, stat_vars,
                    lag_vars, run_vars, ext_vars >>

\* line 349: return results
ReturnTests ==
    /\ pc = "test"
    /\ t_idx > Len(TARGETS)
    /\ pc' = "tested"
    /\ UNCHANGED << pca_vars, tester_vars, city_vars, compare_vars, stat_vars,
                    lag_vars, run_vars, ext_vars >>

TargetSet == { TARGETS[i] : i \in 1..Len(TARGETS) }

InitTester ==
    /\ pc = "test"
    /\ df_clustered \in [ columns : SUBSET TargetSet,
                          optimal_k : CLUSTERING_K_MIN..CLUSTERING_K_MAX ]
    /\ t_idx = 1
    /\ test_results = << >>
    /\ calls = [ kruskal |-> << >>, dunn |-> {} ]
    /\ IdlePCA
    /\ IdleCity
    /\ IdleCompare
    /\ IdleStat
    /\ IdleLag
    /\ IdleRun
    /\ IdleExt

NextTester == TestOutcome \/ ReturnTests

SpecTester == InitTester /\ [][NextTester]_vars

----------------------------------------------------------------------------
(* Group Significance Tester on city labels:                               *)
(* cross_city_descriptive_analysis.main                                    *)

CITY_ORDER == << "taipei", "kaohsiung", "pingtung", "tainan" >>
CitySet == { CITY_ORDER[i] : i \in 1..Len(CITY_ORDER) }

CITY_TARGETS == << "pos", "egg" >>
CityTargetSet == { CITY_TARGETS[i] : i \in 1..Len(CITY_TARGETS) }

\* lines 483-485: fewer than two cities ends main before any test
MainStart ==
    /\ pc = "main"
    /\ pc' = IF Cardinality(city_data) < 2 THEN "returned" ELSE "kruskal"
    /\ UNCHANGED << pca_vars, tester_vars, city_vars, compare_vars, stat_vars,
                    lag_vars, run_vars, ext_vars >>

\* line 180: 'Yes' if p_value < 0.05 else 'No'
SignificantFlag(p) == IF FLt(p, F(KRUSKAL_ALPHA)) THEN "Yes" ELSE "No"

\* lines 137-188: perform_kruskal_wallis, one row per target when at least
\* two cities have values
PerformKruskalWallis ==
    /\ pc = "kruskal"
    /\ \E outcome \in [CityTargetSet -> KruskalOutcomes] :
         kruskal_results' =
           [ target \in { t \in CityTargetSet : Cardinality(city_data) >= 2 } |->
               [ H_Statistic |-> outcome[target].h,
                 p_value |-> outcome[target].p,
                 Significant |-> SignificantFlag(outcome[target].p),
                 N_Groups |-> Cardinality(city_data) ] ]
    /\ pc' = "dunn"
    /\ UNCHANGED << city_data, dunn_results, saved, pca_vars, tester_vars, compare_vars, stat_vars,
                    lag_vars, run_vars, ext_vars >>

\* lines 191-250: perform_dunn_posthoc, one matrix per target when at least
\* two cities were combined
PerformDunnPosthoc ==
    /\ pc = "dunn"
    /\ \E cell \in [CityTargetSet -> DunnCells] :
         dunn_results' =
           [ target \in { t \in CityTargetSet : Cardinality(city_data) >= 2 } |->
               DunnMatrix(Cardinality(city_data), cell[target]) ]
    /\ pc' = "save"
    /\ UNCHANGED << city_data, kruskal_results, saved, pca_vars, tester_vars, compare_vars, stat_vars,
                    lag_vars, run_vars, ext_vars >>

\* lines 253-471: save_results; of its files, the test tables
SaveResults ==
    /\ pc = "save"
    /\ saved' = { << "kruskal_wallis_results", "csv" >> }
                \cup { << "dunn_posthoc", target >> : target \in DOMAIN dunn_results }
    /\ pc' = "returned"
    /\ UNCHANGED << city_data, kruskal_results, dunn_results, pca_vars, tester_vars, compare_vars, stat_vars,
                    lag_vars, run_vars, ext_vars >>

\* load_city_data(): the cities whose file exists, each with valid rows
InitCity ==
    /\ pc = "main"
    /\ city_data \in SUBSET CitySet
    /\ kruskal_results = << >>
    /\ dunn_results = << >>
    /\ saved = {}
    /\ IdlePCA
    /\ IdleTester
    /\ IdleCompare
    /\ IdleStat
    /\ IdleLag
    /\ IdleRun
    /\ IdleExt

NextCity == MainStart \/ PerformKruskalWallis \/ PerformDunnPosthoc \/ SaveResults

SpecCity == InitCity /\ [][NextCity]_vars

----------------------------------------------------------------------------
(* Cross-unit Comparator: CrossCityComparisonAnalyzer._identify_predictors. *)
(* Coefficients are counted in units of 0.1, p-values in units of 1/1000.   *)

\* config.UNIVERSAL_PREDICTOR_RHO_THRESHOLD = 0.3
UNIVERSAL_PREDICTOR_RHO_THRESHOLD == 3
\* config.UNIVERSAL_PREDICTOR_P_THRESHOLD = 0.001
UNIVERSAL_PREDICTOR_P_THRESHOLD == 1

Features == 1..MaxFeat

\* np.abs
FAbs(a) == IF a.nan THEN NaN ELSE F(IF a.v < 0 THEN -a.v ELSE a.v)

SignificantEither(corr, pval, f) ==
    \/ FGt(FAbs(corr[f]), F(UNIVERSAL_PREDICTOR_RHO_THRESHOLD))
    \/ FLt(pval[f], F(UNIVERSAL_PREDICTOR_P_THRESHOLD))

\* lines 180-181: (np.abs(corr) > RHO) & (pval < P), for one feature
Significant(corr, pval, f) ==
    /\ FGt(FAbs(corr[f]), F(UNIVERSAL_PREDICTOR_RHO_THRESHOLD))
    /\ FLt(pval[f], F(UNIVERSAL_PREDICTOR_P_THRESHOLD))

\* lines 166-175: the cities, in city_order, that are in city_results and
\* hold correlations for the target
Supplying(cr, target) ==
    { c \in CitySet : c \in DOMAIN cr /\ target \in DOMAIN cr[c] }

\* lines 164-183: city_significant for one target
CitySignificant(cr, target) ==
    [ c \in Supplying(cr, target) |->
        { f \in Features : Significant(cr[c][target].corr, cr[c][target].pval, f) } ]

\* line 187: set.intersection(*city_significant.values())
SetIntersection(sets) ==
    LET first == sets[CHOOSE c \in DOMAIN sets : TRUE]
    IN  { f \in first : \A c \in DOMAIN sets : f \in sets[c] }

\* lines 197-198: the cities, in city_order, whose set holds the feature
CitiesWithFeature(sets, f) ==
    LET Pick[i \in 0..Len(CITY_ORDER)] ==
          IF i = 0 THEN << >>
          ELSE IF CITY_ORDER[i] \in DOMAIN sets /\ f \in sets[CITY_ORDER[i]]
               THEN Append(Pick[i - 1], CITY_ORDER[i])
               ELSE Pick[i - 1]
    IN  Pick[Len(CITY_ORDER)]

\* keeping only the features held by a single city
CitySpecificSingle(sets) ==
    LET all_features == UNION { sets[c] : c \in DOMAIN sets }
        kept == { f \in all_features : Len(CitiesWithFeature(sets, f)) = 1 }
    IN  [ f \in kept |-> CitiesWithFeature(sets, f) ]

\* lines 193-201: the features of the union held by one or two cities
CitySpecific(sets) ==
    LET all_features == UNION { sets[c] : c \in DOMAIN sets }
        kept == { f \in all_features :
                    /\ 1 <= Len(CitiesWithFeature(sets, f))
                    /\ Len(CitiesWithFeature(sets, f)) <= 2 }
    IN  [ f \in kept |-> CitiesWithFeature(sets, f) ]

\* lines 157-208: _identify_predictors; a target no city supplies gets no
\* entry
IdentifyPredictors(cr) ==
    LET reported == { t \in TargetSet : Supplying(cr, t) # {} }
    IN  [ universal_predictors |->
            [ t \in reported |-> SetIntersection(CitySignificant(cr, t)) ],
          city_specific_predictors |->
            [ t \in reported |-> CitySpecific(CitySignificant(cr, t)) ] ]

Compare ==
    /\ pc = "compare"
    /\ predictors' = IdentifyPredictors(city_results)
    /\ pc' = "compared"
    /\ UNCHANGED << city_results, pca_vars, tester_vars, city_vars, stat_vars, lag_vars, run_vars, ext_vars >>

\* (coefficient, p-value) of one feature in one city: strong and
\* significant, negative and strong, coefficient at its threshold, p-value
\* at its threshold, undefined
CorrPairs ==
    { << F(4), F(0) >>, << F(-4), F(0) >>, << F(3), F(0) >>,
      << F(4), F(1) >>, << NaN, NaN >> }

\* feature 1 takes every pair; the others are strong and significant, or
\* undefined
PairsOf(f) == IF f = 1 THEN CorrPairs ELSE { << F(4), F(0) >>, << NaN, NaN >> }

TargetStats ==
    { [ corr |-> [f \in Features |-> pr[f][1]],
        pval |-> [f \in Features |-> pr[f][2]] ] :
      pr \in { q \in [Features -> CorrPairs] : \A f \in Features : q[f] \in PairsOf(f) } }

AllStrong ==
    [ corr |-> [f \in Features |-> F(4)], pval |-> [f \in Features |-> F(0)] ]

\* The comparator's input.  One target is probed with every combination of
\* cities and statistics: the first target while every city also holds
\* correlations for the other one, the second target alone.
InitCompare ==
    /\ pc = "compare"
    /\ \E probe \in TargetSet :
       \E stats \in [CitySet -> TargetStats \cup { None }] :
         LET others == (probe = TARGETS[1])
         IN  city_results =
           [ c \in { d \in CitySet : others \/ stats[d] # None } |->
               [ t \in { u \in TargetSet :
                           \/ u = probe /\ stats[c] # None
                           \/ u # probe /\ others } |->
                   IF t = probe THEN stats[c] ELSE AllStrong ] ]
    /\ predictors = << >>
    /\ IdlePCA
    /\ IdleTester
    /\ IdleCity
    /\ IdleStat
    /\ IdleLag
    /\ IdleRun
    /\ IdleExt

SpecCompare == InitCompare /\ [][Compare]_vars

----------------------------------------------------------------------------
(* Correlation Screener: calculate_correlation, bonferroni_correction and  *)
(* StatisticalAnalyzer.  Coefficients are counted in units of 0.1,         *)
(* p-values in units of 1/1000.  A table is its row count, its feature     *)
(* list, the outcome columns it has, and per column the rows that are not  *)
(* null.                                                                   *)

\* config.BONFERRONI_ALPHA = 0.05
BONFERRONI_ALPHA == 50
\* config.N_TOP_CORRELATIONS = 20
N_TOP_CORRELATIONS == 20

\* a / n as an exact quotient
Ratio(a, n) == [ num |-> a, den |-> n ]

\* p < a / n on floats: False when p is NaN
FLtRatio(p, q) == ~p.nan /\ p.v * q.den < q.num

\* the rows in which every feature and the target are present
ValidRowsListwise(table, feature, target) ==
    { r \in table.notna_target[target] :
        \A f \in 1..Len(table.features) : r \in table.notna_feature[f] }

\* line 386: df[[feature, target]].notna().all(axis=1)
ValidRows(table, feature, target) ==
    table.notna_feature[feature] \cap table.notna_target[target]

\* stats.spearmanr(x, y): coefficient and p-value; both NaN on fewer than
\* two pairs or on a constant column
SpearmanPairs ==
    { [ corr |-> F(10), pval |-> F(0) ], [ corr |-> F(-10), pval |-> F(0) ],
      [ corr |-> F(1), pval |-> F(500) ], [ corr |-> F(-1), pval |-> F(500) ],
      [ corr |-> F(0), pval |-> F(1000) ], [ corr |-> NaN, pval |-> NaN ] }

SpearmanR(rows) ==
    IF Cardinality(rows) < 2 THEN { [ corr |-> NaN, pval |-> NaN ] }
    ELSE SpearmanPairs

\* lines 385-404: calculate_correlation, given what spearmanr answers for
\* each feature: the two Series and the rows handed to spearmanr
CalculateCorrelationResult(table, target, rho) ==
    LET fs == 1..Len(table.features)
    IN  [ correlations |->
            [ f \in fs |-> IF ValidRows(table, f, target) # {}
                           THEN rho[f].corr ELSE NaN ],
          p_values |->
            [ f \in fs |-> IF ValidRows(table, f, target) # {}
                           THEN rho[f].pval ELSE NaN ],
          spearman_calls |->
            [ f \in { g \in fs : ValidRows(table, g, target) # {} } |->
                ValidRows(table, f, target) ] ]

\* what spearmanr may answer for each feature of the table
SpearmanAnswers(table, target) ==
    { rho \in [ 1..Len(table.features) -> SpearmanPairs ] :
        \A f \in 1..Len(table.features) :
          rho[f] \in SpearmanR(ValidRows(table, f, target)) }

RECURSIVE CountDefined(_)
CountDefined(p) ==
    IF Len(p) = 0 THEN 0
    ELSE (IF p[1].nan THEN 0 ELSE 1) + CountDefined(Tail(p))

\* dividing alpha by the number of defined p-values
BonferroniCorrectionDefined(p, alpha) ==
    IF CountDefined(p) = 0
    THEN [ raised |-> TRUE, corrected_alpha |-> Ratio(alpha, 1), significant |-> << >> ]
    ELSE [ raised |-> FALSE,
           corrected_alpha |-> Ratio(alpha, CountDefined(p)),
           significant |->
             [ i \in 1..Len(p) |-> FLtRatio(p[i], Ratio(alpha, CountDefined(p))) ] ]

\* lines 425-429: bonferroni_correction; alpha / 0 raises ZeroDivisionError
BonferroniCorrection(p, alpha) ==
    IF Len(p) = 0
    THEN [ raised |-> TRUE, corrected_alpha |-> Ratio(alpha, 1), significant |-> << >> ]
    ELSE [ raised |-> FALSE,
           corrected_alpha |-> Ratio(alpha, Len(p)),
           significant |->
             [ i \in 1..Len(p) |-> FLtRatio(p[i], Ratio(alpha, Len(p))) ] ]

\* sort_values('correlation', ascending=False) over the rows in S: the row
\* positions by decreasing coefficient, equal coefficients in row order
RECURSIVE SortDescending(_, _)
SortDescending(S, corr) ==
    IF S = {} THEN << >>
    ELSE LET m == CHOOSE i \in S : \A j \in S :
                    \/ corr[j].v < corr[i].v
                    \/ (corr[j].v = corr[i].v /\ j >= i)
         IN  << m >> \o SortDescending(S \ {m}, corr)

\* sort_values('correlation', ascending=True)
RECURSIVE SortAscending(_, _)
SortAscending(S, corr) ==
    IF S = {} THEN << >>
    ELSE LET m == CHOOSE i \in S : \A j \in S :
                    \/ corr[j].v > corr[i].v
                    \/ (corr[j].v = corr[i].v /\ j >= i)
         IN  << m >> \o SortAscending(S \ {m}, corr)

\* DataFrame.head(n)
Head_n(q, n) == SubSeq(q, 1, Min2(n, Len(q)))

\* lines 165-170: one row of the combined frame
TopRow(corr, pval, i) ==
    [ feature |-> i, correlation |-> corr[i], p_value |-> pval[i],
      abs_correlation |-> FAbs(corr[i]) ]

\* lines 165-185: _get_top_correlations.  dropna() removes a row with NaN
\* in any column; the positive table holds coefficients > 0 only, the
\* negative table coefficients < 0 only.
GetTopCorrelations(corr, pval, n_top) ==
    LET kept == { i \in 1..Len(corr) : ~corr[i].nan /\ ~pval[i].nan }
        positive == Head_n(SortDescending({ i \in kept : corr[i].v > 0 }, corr), n_top)
        negative == Head_n(SortAscending({ i \in kept : corr[i].v < 0 }, corr), n_top)
    IN  [ top_positive |-> [ k \in 1..Len(positive) |-> TopRow(corr, pval, positive[k]) ],
          top_negative |-> [ k \in 1..Len(negative) |-> TopRow(corr, pval, negative[k]) ] ]

StatRaise(e) ==
    /\ pc' = "error"
    /\ stat_error' = e

\* lines 78-81: an outcome column the table lacks is skipped
StatSkipTarget ==
    /\ pc = "stat"
    /\ s_idx <= Len(TARGETS)
    /\ TARGETS[s_idx] \notin df.columns
    /\ s_idx' = s_idx + 1
    /\ UNCHANGED << pc, df, correlations, p_values, spearman_calls, corrected_alpha,
                    significant, top_pos, top_neg, stat_results, stat_error,
                    pca_vars, tester_vars, city_vars, compare_vars,
                    lag_vars, run_vars, ext_vars >>

\* lines 86-88: calculate_correlation(df, features, target, method)
StatCorrelate ==
    /\ pc = "stat"
    /\ s_idx <= Len(TARGETS)
    /\ TARGETS[s_idx] \in df.columns
    /\ \E rho \in SpearmanAnswers(df, TARGETS[s_idx]) :
         LET out == CalculateCorrelationResult(df, TARGETS[s_idx], rho)
         IN  /\ correlations' = out.correlations
             /\ p_values' = out.p_values
             /\ spearman_calls' = out.spearman_calls
    /\ pc' = "bonferroni"
    /\ UNCHANGED << df, s_idx, corrected_alpha, significant, top_pos, top_neg,
                    stat_results, stat_error,
                    pca_vars, tester_vars, city_vars, compare_vars,
                    lag_vars, run_vars, ext_vars >>

\* lines 91-93: bonferroni_correction(p_values, alpha=BONFERRONI_ALPHA)
StatBonferroni ==
    /\ pc = "bonferroni"
    /\ LET out == BonferroniCorrection(p_values, BONFERRONI_ALPHA)
       IN  IF out.raised
           THEN /\ StatRaise("ZeroDivisionError")
                /\ UNCHANGED << corrected_alpha, significant >>
           ELSE /\ corrected_alpha' = out.corrected_alpha
                /\ significant' = out.significant
                /\ pc' = "top"
                /\ UNCHANGED stat_error
    /\ UNCHANGED << df, s_idx, correlations, p_values, spearman_calls, top_pos,
                    top_neg, stat_results,
                    pca_vars, tester_vars, city_vars, compare_vars,
                    lag_vars, run_vars, ext_vars >>

\* lines 100-112: the outcome's entries of results, with the two tables of
\* _get_top_correlations(correlations, p_values, n_top=N_TOP_CORRELATIONS)
StatTop ==
    /\ pc = "top"
    /\ LET out == GetTopCorrelations(correlations, p_values, N_TOP_CORRELATIONS)
       IN  /\ top_pos' = out.top_positive
           /\ top_neg' = out.top_negative
           /\ stat_results' = stat_results @@ (TARGETS[s_idx] :>
                [ correlations |-> correlations, p_values |-> p_values,
                  significant |-> significant,
                  top_positive |-> out.top_positive,
                  top_negative |-> out.top_negative ])
    /\ pc' = "report"
    /\ UNCHANGED << df, s_idx, correlations, p_values, spearman_calls,
                    corrected_alpha, significant, stat_error,
                    pca_vars, tester_vars, city_vars, compare_vars,
                    lag_vars, run_vars, ext_vars >>

\* lines 114-117: top_pos.iloc[0] and top_neg.iloc[0] are printed; iloc[0]
\* on an empty table raises IndexError
StatReport ==
    /\ pc = "report"
    /\ IF Len(top_pos) = 0 \/ Len(top_neg) = 0
       THEN /\ StatRaise("IndexError")
            /\ UNCHANGED s_idx
       ELSE /\ pc' = "stat"
            /\ s_idx' = s_idx + 1
            /\ UNCHANGED stat_error
    /\ UNCHANGED << df, correlations, p_values, spearman_calls, corrected_alpha,
                    significant, top_pos, top_neg, stat_results,
                    pca_vars, tester_vars, city_vars, compare_vars,
                    lag_vars, run_vars, ext_vars >>

\* lines 136-142: corrected_alpha is read after the loop; it is unbound when
\* no outcome was analysed
StatReturn ==
    /\ pc = "stat"
    /\ s_idx > Len(TARGETS)
    /\ IF DOMAIN stat_results = {}
       THEN StatRaise("UnboundLocalError")
       ELSE pc' = "analysed" /\ UNCHANGED stat_error
    /\ UNCHANGED << df, s_idx, correlations, p_values, spearman_calls,
                    corrected_alpha, significant, top_pos, top_neg, stat_results,
                    pca_vars, tester_vars, city_vars, compare_vars,
                    lag_vars, run_vars, ext_vars >>

\* tables of n rows and nf features whose null masks come from masks
StatTables(n, nf, column_sets, masks) ==
    { [ n_rows |-> n, features |-> [i \in 1..nf |-> i], columns |-> cols,
        notna_feature |-> mf, notna_target |-> mt ] :
      cols \in column_sets, mf \in [1..nf -> masks], mt \in UNION { [c -> masks] : c \in column_sets } }

WellFormedTable(table) == DOMAIN table.notna_target = table.columns

IdleOthersForStat ==
    /\ IdleLag
    /\ IdleRun
    /\ IdleExt
    /\ IdlePCA
    /\ IdleTester
    /\ IdleCity
    /\ IdleCompare

\* StatisticalAnalyzer.analyze on tables of at most two features, without
\* rows or with MaxRows rows, whose feature columns are complete or empty
InitStat ==
    /\ pc = "stat"
    /\ df \in UNION { { t \in StatTables(n, nf, SUBSET TargetSet, { 1..n })
                           \cup StatTables(n, nf, SUBSET TargetSet, { {}, 1..n }) :
                         /\ WellFormedTable(t)
                         /\ \A c \in t.columns : t.notna_target[c] = 1..n } :
                      n \in {0, MaxRows}, nf \in 0..2 }
    /\ s_idx = 1
    /\ correlations = << >>
    /\ p_values = << >>
    /\ spearman_calls = << >>
    /\ corrected_alpha = Ratio(0, 1)
    /\ significant = << >>
    /\ top_pos = << >>
    /\ top_neg = << >>
    /\ stat_results = << >>
    /\ stat_error = NoException
    /\ IdleOthersForStat

NextStat ==
    \/ StatSkipTarget
    \/ StatCorrelate
    \/ StatBonferroni
    \/ StatTop
    \/ StatReport
    \/ StatReturn

SpecStat == InitStat /\ [][NextStat]_vars

\* calculate_correlation alone, on every table of up to MaxRows rows and
\* MaxFeat features with any pattern of nulls
InitCorrelation ==
    /\ pc = "stat"
    /\ df \in UNION { { t \in StatTables(n, nf, { { TARGETS[1] } }, SUBSET (1..n)) :
                         WellFormedTable(t) } :
                      n \in 0..MaxRows, nf \in 1..MaxFeat }
    /\ s_idx = 1
    /\ correlations = << >>
    /\ p_values = << >>
    /\ spearman_calls = << >>
    /\ corrected_alpha = Ratio(0, 1)
    /\ significant = << >>
    /\ top_pos = << >>
    /\ top_neg = << >>
    /\ stat_results = << >>
    /\ stat_error = NoException
    /\ IdleOthersForStat

SpecCorrelation == InitCorrelation /\ [][StatCorrelate]_vars

\* p-values at, just below and just above alpha / n, for each n
BonferroniPGrid ==
    UNION { { F(BONFERRONI_ALPHA \div n - 1), F(BONFERRONI_ALPHA \div n),
              F(BONFERRONI_ALPHA \div n + 1) } : n \in 1..MaxTests }
      \cup { F(0), NaN }

\* bonferroni_correction alone, on every Series of up to MaxTests p-values
InitBonferroni ==
    /\ pc = "bonferroni"
    /\ p_values \in UNION { [1..n -> BonferroniPGrid] : n \in 0..MaxTests }
    /\ df = [ n_rows |-> 0, features |-> << >>, columns |-> {},
              notna_feature |-> << >>, notna_target |-> << >> ]
    /\ s_idx = 1
    /\ correlations = << >>
    /\ spearman_calls = << >>
    /\ corrected_alpha = Ratio(0, 1)
    /\ significant = << >>
    /\ top_pos = << >>
    /\ top_neg = << >>
    /\ stat_results = << >>
    /\ stat_error = NoException
    /\ IdleOthersForStat

SpecBonferroni == InitBonferroni /\ [][StatBonferroni]_vars

\* (coefficient, p-value) pairs a Series pair may hold
TopPairs ==
    { << F(2), F(0) >>, << F(1), F(0) >>, << F(0), F(1000) >>,
      << F(-1), F(0) >>, << F(-2), F(0) >>, << NaN, NaN >> }

\* every short pair of Series, and Series longer than N_TOP_CORRELATIONS
\* whose coefficients are all distinct (here in a unit small enough to keep
\* them within [-1, 1]): all positive, mixed, all negative
TopInputs ==
    UNION { [1..n -> TopPairs] : n \in 0..MaxShort }
      \cup { [ i \in 1..len |-> << F(i - off), F(0) >> ] :
               len \in (N_TOP_CORRELATIONS + 1)..(N_TOP_CORRELATIONS + MaxExtra),
               off \in {0, N_TOP_CORRELATIONS \div 2, N_TOP_CORRELATIONS + MaxExtra + 1} }

\* _get_top_correlations alone
InitTop ==
    /\ pc = "top"
    /\ \E input \in TopInputs :
         /\ correlations = [ i \in 1..Len(input) |-> input[i][1] ]
         /\ p_values = [ i \in 1..Len(input) |-> input[i][2] ]
    /\ df = [ n_rows |-> 0, features |-> << >>, columns |-> {},
              notna_feature |-> << >>, notna_target |-> << >> ]
    /\ s_idx = 1
    /\ spearman_calls = << >>
    /\ corrected_alpha = Ratio(0, 1)
    /\ significant = << >>
    /\ top_pos = << >>
    /\ top_neg = << >>
    /\ stat_results = << >>
    /\ stat_error = NoException
    /\ IdleOthersForStat

SpecTop == InitTop /\ [][StatTop]_vars

----------------------------------------------------------------------------
(* Lag Scanner: LagRollingAnalyzer._find_optimal_lags.  A correlation      *)
(* matrix is a list of rows, one per variable that has lag features, each  *)
(* with one coefficient (or NaN) per week of LAG_RANGE.                    *)

\* config.LAG_RANGE = list(range(1, 13))
LAG_RANGE == [ i \in 1..12 |-> i ]

\* config.LAG_VARIABLES
LAG_VARIABLES ==
    << "H_temp", "M_temp", "L_temp", "R", "NDVImean", "NDVImedian", "NDVIsum" >>

\* np.nanargmax: the 0-based index of the first occurrence of the maximum
\* among the entries that are not NaN (raises when all are NaN)
NanArgMax(a) ==
    (CHOOSE i \in 1..Len(a) :
       /\ ~a[i].nan
       /\ \A j \in 1..Len(a) : a[j].nan \/ a[j].v <= a[i].v
       /\ \A j \in 1..(i - 1) : a[j].nan \/ a[j].v < a[i].v) - 1

\* np.all(np.isnan(a))
AllNaN(a) == \A i \in 1..Len(a) : a[i].nan

\* taking the maximum of the signed coefficients
OptimalSigned(corrs) ==
    IF ~AllNaN(corrs)
    THEN [ week |-> F(LAG_RANGE[NanArgMax(corrs) + 1]),
           correlation |-> corrs[NanArgMax(corrs) + 1] ]
    ELSE [ week |-> NaN, correlation |-> NaN ]

\* lines 199-206 and 212-220: the optimal week and its signed coefficient
Optimal(corrs) ==
    LET abs_corrs == [ i \in 1..Len(corrs) |-> FAbs(corrs[i]) ]
    IN  IF ~AllNaN(abs_corrs)
        THEN [ week |-> F(LAG_RANGE[NanArgMax(abs_corrs) + 1]),
               correlation |-> corrs[NanArgMax(abs_corrs) + 1] ]
        ELSE [ week |-> NaN, correlation |-> NaN ]

\* line 209: lag_rolling_df[lag_rolling_df['variable'] == variable]
RowsOfVariable(frame, variable) ==
    SelectSeq(frame, LAMBDA row : row.variable = variable)

\* lines 191-231: the row appended for one row of lag_simple_df
OptimalLagRow(row, lag_rolling) ==
    LET simple == Optimal(row.lags)
        rolling_row == RowsOfVariable(lag_rolling, row.variable)
        rolling == IF Len(rolling_row) > 0 THEN Optimal(rolling_row[1].lags)
                   ELSE [ week |-> NaN, correlation |-> NaN ]
    IN  [ variable |-> row.variable,
          optimal_lag_simple_weeks |-> simple.week,
          optimal_lag_simple_correlation |-> simple.correlation,
          optimal_lag_rolling_weeks |-> rolling.week,
          optimal_lag_rolling_correlation |-> rolling.correlation ]

\* lines 173-233: _find_optimal_lags.  A matrix built from an empty list has
\* no 'variable' column, and line 209 raises KeyError on it.
FindOptimalLags(lag_simple, lag_rolling) ==
    IF Len(lag_simple) > 0 /\ Len(lag_rolling) = 0
    THEN [ raised |-> TRUE, rows |-> << >> ]
    ELSE [ raised |-> FALSE,
           rows |-> [ i \in 1..Len(lag_simple) |->
                        OptimalLagRow(lag_simple[i], lag_rolling) ] ]

FindOptimalLagsStep ==
    /\ pc = "lags"
    /\ LET out == FindOptimalLags(lag_simple_df, lag_rolling_df)
       IN  IF out.raised
           THEN /\ pc' = "error"
                /\ lag_error' = "KeyError"
                /\ UNCHANGED optimal_lags
           ELSE /\ pc' = "lagged"
                /\ optimal_lags' = out.rows
                /\ UNCHANGED lag_error
    /\ UNCHANGED << lag_simple_df, lag_rolling_df, lag_df, l_idx, lag_results,
                    pca_vars, tester_vars,
                    city_vars, compare_vars, stat_vars, run_vars, ext_vars >>

\* the variables scanned here
LagVarSet == { LAG_VARIABLES[i] : i \in 1..MaxLagVars }

\* line 171: the matrix of _analyze_lag_features, in LAG_VARIABLES order,
\* for the variables that have lag features
RECURSIVE Frame(_, _, _)
Frame(i, present, row_of) ==
    IF i = 0 THEN << >>
    ELSE IF LAG_VARIABLES[i] \in present
         THEN Append(Frame(i - 1, present, row_of),
                     [ variable |-> LAG_VARIABLES[i],
                       lags |-> row_of[LAG_VARIABLES[i]] ])
         ELSE Frame(i - 1, present, row_of)

LagVals == { NaN, F(-3), F(2), F(3) }

\* rows with coefficients in the first and the last week only, and rows
\* with a single coefficient in any week
LagRows ==
    { [ w \in 1..Len(LAG_RANGE) |->
          IF w = 1 THEN a ELSE IF w = Len(LAG_RANGE) THEN b ELSE NaN ] :
        a \in LagVals, b \in LagVals }
      \cup { [ w \in 1..Len(LAG_RANGE) |-> IF w = k THEN F(3) ELSE NaN ] :
               k \in 1..Len(LAG_RANGE) }

\* a row with a distinct coefficient in every week
OtherRow == [ w \in 1..Len(LAG_RANGE) |-> F(w - 6) ]

InitLag ==
    /\ pc = "lags"
    /\ \E sv \in SUBSET LagVarSet, rv \in SUBSET LagVarSet :
       \E srow \in LagRows, rrow \in LagRows :
         /\ lag_simple_df = Frame(MaxLagVars, sv,
              [ v \in LagVarSet |-> IF v = LAG_VARIABLES[1] THEN srow ELSE OtherRow ])
         /\ lag_rolling_df = Frame(MaxLagVars, rv,
              [ v \in LagVarSet |-> IF v = LAG_VARIABLES[1] THEN rrow ELSE OtherRow ])
    /\ optimal_lags = << >>
    /\ lag_error = NoException
    /\ lag_df = [ columns |-> {}, lag_columns |-> {}, nan_weeks |-> {} ]
    /\ l_idx = 1
    /\ lag_results = << >>
    /\ IdlePCA
    /\ IdleTester
    /\ IdleCity
    /\ IdleCompare
    /\ IdleStat
    /\ IdleRun
    /\ IdleExt

SpecLag == InitLag /\ [][FindOptimalLagsStep]_vars

----------------------------------------------------------------------------
(* Lag Scanner: LagRollingAnalyzer.analyze and _analyze_lag_features.  A   *)
(* lag column is its identity << variable, family, week >>; lag_df holds   *)
(* the outcome columns of the table, its lag columns, and the weeks whose  *)
(* columns have no row complete with the outcome.                          *)

\* f'{week}' in f, for a column name f that ends in the decimal digits of
\* week w2 and has no other digit: the digits of w occur in those of w2
WeekInName(w, w2) ==
    \/ w = w2
    \/ w < 10 /\ w2 >= 10 /\ (w2 \div 10 = w \/ w2 % 10 = w)

\* data_loader.py lines 238-271: get_lag_features, the columns found, in
\* the order of LAG_RANGE, each named by its week
GetLagFeatures(table, variable, lag_type) ==
    SelectSeq(LAG_RANGE,
              LAMBDA w : << variable, lag_type, w >> \in table.lag_columns)

\* lines 155-164: the coefficient of one lag column with the outcome; NaN
\* when no row has both.  Columns of different weeks and families have
\* different coefficients, and the two outcomes opposite ones.
LagCorr(table, target, lag_type, w) ==
    IF w \in table.nan_weeks THEN NaN
    ELSE LET c == IF lag_type = "simple" THEN w - 7 ELSE 6 - w
         IN  F(IF target = TARGETS[1] THEN c ELSE 0 - c)

\* lines 147-167: the row of one variable: per week the coefficient of the
\* first found column whose name contains the week's digits
LagRow(table, target, variable, lag_type) ==
    LET lag_features == GetLagFeatures(table, variable, lag_type)
    IN  [ i \in 1..Len(LAG_RANGE) |->
            LET matching_features ==
                  SelectSeq(lag_features,
                            LAMBDA f : WeekInName(LAG_RANGE[i], f))
            IN  IF Len(matching_features) > 0
                THEN LagCorr(table, target, lag_type, matching_features[1])
                ELSE NaN ]

LagVariableSet == { LAG_VARIABLES[i] : i \in 1..Len(LAG_VARIABLES) }

\* lines 134-171: _analyze_lag_features, a row per variable that has at
\* least one lag column of the family
AnalyzeLagFeatures(table, target, lag_type) ==
    Frame(Len(LAG_VARIABLES),
          { v \in LagVariableSet :
              Len(GetLagFeatures(table, v, lag_type)) # 0 },
          [ v \in LagVariableSet |-> LagRow(table, target, v, lag_type) ])

\* lines 92-105: the exception the three figures end in.  lag_df[lag_cols]
\* (line 257) raises KeyError on a matrix built from an empty list; with one
\* row, plt.subplots(1, 3) gives an array that line 314 wraps in a list, and
\* ax.plot (line 327) raises AttributeError on it.
LagFiguresRaise(lag_simple, lag_rolling) ==
    IF Len(lag_simple) = 0 \/ Len(lag_rolling) = 0 THEN "KeyError"
    ELSE IF Len(lag_simple) = 1 THEN "AttributeError"
    ELSE NoException

\* lines 70-73: an outcome column the table lacks is skipped
LagSkipTarget ==
    /\ pc = "lag_analyze"
    /\ l_idx <= Len(TARGETS)
    /\ TARGETS[l_idx] \notin lag_df.columns
    /\ l_idx' = l_idx + 1
    /\ UNCHANGED << pc, lag_simple_df, lag_rolling_df, optimal_lags, lag_error,
                    lag_df, lag_results,
                    pca_vars, tester_vars, city_vars, compare_vars, stat_vars,
                    run_vars, ext_vars >>

\* lines 75-105: the loop body for an outcome the table has
LagAnalyzeTarget ==
    /\ pc = "lag_analyze"
    /\ l_idx <= Len(TARGETS)
    /\ TARGETS[l_idx] \in lag_df.columns
    /\ LET target == TARGETS[l_idx]
           lag_simple == AnalyzeLagFeatures(lag_df, target, "simple")
           lag_rolling == AnalyzeLagFeatures(lag_df, target, "rolling")
           out == FindOptimalLags(lag_simple, lag_rolling)
           fig == LagFiguresRaise(lag_simple, lag_rolling)
       IN  /\ lag_simple_df' = lag_simple
           /\ lag_rolling_df' = lag_rolling
           /\ IF out.raised
              THEN /\ pc' = "error"
                   /\ lag_error' = "KeyError"
                   /\ UNCHANGED << optimal_lags, lag_results, l_idx >>
              ELSE /\ optimal_lags' = out.rows
                   /\ IF fig # NoException
                      THEN /\ pc' = "error"
                           /\ lag_error' = fig
                           /\ UNCHANGED << lag_results, l_idx >>
                      ELSE /\ lag_results' = lag_results @@ (target :>
                                [ lag_simple |-> lag_simple,
                                  lag_rolling |-> lag_rolling,
                                  optimal_lags |-> out.rows ])
                           /\ l_idx' = l_idx + 1
                           /\ UNCHANGED << pc, lag_error >>
    /\ UNCHANGED << lag_df,
                    pca_vars, tester_vars, city_vars, compare_vars, stat_vars,
                    run_vars, ext_vars >>

\* lines 107-114: self.results = results; return results
LagReturn ==
    /\ pc = "lag_analyze"
    /\ l_idx > Len(TARGETS)
    /\ pc' = "lag_analysed"
    /\ UNCHANGED << lag_vars,
                    pca_vars, tester_vars, city_vars, compare_vars, stat_vars,
                    run_vars, ext_vars >>

AllWeeks == { LAG_RANGE[i] : i \in 1..Len(LAG_RANGE) }

\* the weeks a variable has columns for: none, all, a single late week, all
\* but the first, all but the second
WeekSets ==
    { {}, AllWeeks, { 10 }, { 12 }, AllWeeks \ { 1 }, AllWeeks \ { 2 } }

\* the lag columns of a table: the first variable with any of WeekSets in
\* each family, every other scanned variable with all weeks of the families
\* picked for it
LagColumnSets ==
    { { << LAG_VARIABLES[1], "simple", w >> : w \in sw }
        \cup { << LAG_VARIABLES[1], "rolling", w >> : w \in rw }
        \cup UNION { { << v, fam, w >> : w \in AllWeeks, fam \in others[v] } :
                     v \in LagVarSet \ { LAG_VARIABLES[1] } } :
      sw \in WeekSets, rw \in WeekSets,
      others \in [ LagVarSet \ { LAG_VARIABLES[1] } ->
                     SUBSET { "simple", "rolling" } ] }

InitLagAnalyze ==
    /\ pc = "lag_analyze"
    /\ lag_df \in [ columns : SUBSET TargetSet,
                    lag_columns : LagColumnSets,
                    nan_weeks : { {}, { 3 } } ]
    /\ l_idx = 1
    /\ lag_results = << >>
    /\ lag_simple_df = << >>
    /\ lag_rolling_df = << >>
    /\ optimal_lags = << >>
    /\ lag_error = NoException
    /\ IdlePCA
    /\ IdleTester
    /\ IdleCity
    /\ IdleCompare
    /\ IdleStat
    /\ IdleRun
    /\ IdleExt

NextLagAnalyze ==
    \/ LagSkipTarget
    \/ LagAnalyzeTarget
    \/ LagReturn

SpecLagAnalyze == InitLagAnalyze /\ [][NextLagAnalyze]_vars

----------------------------------------------------------------------------
(* Cluster plot: PCAClusteringAnalyzer._create_tsne_plot, run twice on one *)
(* reduced matrix.                                                         *)

\* config.TSNE_PERPLEXITY
TSNE_PERPLEXITY == 30
\* config.TSNE_SAMPLE_SIZE
TSNE_SAMPLE_SIZE == 5000

\* line 420: np.random.choice(len(X_pca), TSNE_SAMPLE_SIZE, replace=False)
\* is a method of numpy's global generator
ChoiceRandomState == Unseeded

\* line 433: TSNE(..., random_state=config.RANDOM_SEED)
TSNERandomState == Seeded(RANDOM_SEED)

\* lines 418-425: the rows handed to t-SNE and the stream that picked them
TsneSample(X_pca, run) ==
    IF X_pca.n_samples > TSNE_SAMPLE_SIZE
    THEN [ n_samples |-> TSNE_SAMPLE_SIZE, sampled |-> TRUE,
           stream |-> RngStream(ChoiceRandomState, run) ]
    ELSE [ n_samples |-> X_pca.n_samples, sampled |-> FALSE,
           stream |-> << "none", 0 >> ]

\* lines 417-435: sample, then fit the embedding; TSNE.fit_transform refuses
\* a perplexity that is not below the number of rows
CreateTsnePlot ==
    /\ pc = "tsne"
    /\ IF TsneSample(tsne_X, 1).n_samples <= TSNE_PERPLEXITY
       THEN /\ pc' = "error"
            /\ tsne_error' = "ValueError"
            /\ tsne_plot' =
                 [ r \in Runs |-> [ sample |-> TsneSample(tsne_X, r),
                                    tsne_stream |-> << "none", 0 >> ] ]
       ELSE /\ pc' = "plotted"
            /\ tsne_plot' =
                 [ r \in Runs |-> [ sample |-> TsneSample(tsne_X, r),
                                    tsne_stream |-> RngStream(TSNERandomState, r) ] ]
            /\ UNCHANGED tsne_error
    /\ UNCHANGED << tsne_X, loader_vars, file_vars, instance_vars,
                    pca_vars, tester_vars, city_vars, compare_vars, stat_vars,
                    lag_vars, run_vars >>

\* row counts around the perplexity and around the sample size
TsneRowCounts ==
    (TSNE_PERPLEXITY - MaxMargin)..(TSNE_PERPLEXITY + MaxMargin)
      \cup (TSNE_SAMPLE_SIZE - MaxMargin)..(TSNE_SAMPLE_SIZE + MaxMargin)

InitTsne ==
    /\ pc = "tsne"
    /\ tsne_X \in [ n_samples : TsneRowCounts, n_columns : 1..MaxComp,
                    optimal_k : CLUSTERING_K_MIN..CLUSTERING_K_MAX ]
    /\ tsne_plot = << >>
    /\ tsne_error = NoException
    /\ IdleLoader
    /\ IdleFile
    /\ IdleInstance
    /\ IdlePCA
    /\ IdleTester
    /\ IdleCity
    /\ IdleCompare
    /\ IdleStat
    /\ IdleLag
    /\ IdleRun

SpecTsne == InitTsne /\ [][CreateTsnePlot]_vars

----------------------------------------------------------------------------
(* Analyzer instance: one CityAnalyzer object, its results attribute, its  *)
(* per-city results and the directories its output operations write.       *)

AnalyzerKinds == { "statistical", "pca_clustering", "lag_rolling" }

\* the cities one instance is asked to analyse
InstanceCities == { CITY_ORDER[1], CITY_ORDER[2] }

\* a city table: the outcome columns it has, and whether a step of the
\* analysis raises on it (no complete rows, an empty ranking, a figure)
InstanceTables == [ targets : { TargetSet, {} }, raises : BOOLEAN ]

\* the results dict analyze builds: it always carries city_key
NewResults(c, table) == [ city_key |-> c, targets |-> table.targets ]

\* the exception analyze ends with: one raised by an analysis step, or in
\* StatisticalAnalyzer the read of corrected_alpha (line 136), a local bound
\* only inside the loop body of a present outcome
AnalyzeRaises(kind, table) ==
    IF table.raises THEN "Exception"
    ELSE IF kind = "statistical" /\ table.targets = {} THEN "UnboundLocalError"
    ELSE NoException

\* whether analyze reaches `self.results = results` (statistical line 135,
\* lag/rolling line 108, pca/clustering line 150)
AnalyzeStores(kind, table) == ~table.raises

\* CityAnalyzer.analyze_city: analyze, then city_results[city_key] = results
AnalyzeCity(c, table) ==
    /\ pc = "instance"
    /\ completed < MaxCalls
    /\ self_results' =
         IF AnalyzeStores(analyzer, table)
         THEN NewResults(c, table)
         ELSE self_results
    /\ IF AnalyzeRaises(analyzer, table) = NoException
       THEN /\ self_city_results' =
                 [ k \in DOMAIN self_city_results \cup { c } |->
                     IF k = c THEN NewResults(c, table) ELSE self_city_results[k] ]
            /\ completed' = completed + 1
       ELSE UNCHANGED << self_city_results, completed >>
    /\ raised' = [ op |-> "analyze", exc |-> AnalyzeRaises(analyzer, table) ]
    /\ UNCHANGED << pc, analyzer, files, loader_vars, tsne_vars, file_vars,
                    pca_vars, tester_vars, city_vars, compare_vars, stat_vars,
                    lag_vars, run_vars >>

\* the directory content after save_outputs: what self.results holds
WriteOutputs(fs, dir) ==
    [ d \in DOMAIN fs \cup { dir } |-> IF d = dir THEN self_results ELSE fs[d] ]

\* generate_methods_section: `if not self.results: raise ValueError`
GenerateMethodsSection ==
    /\ pc = "instance"
    /\ raised' = [ op |-> "generate_methods_section",
                   exc |-> IF self_results = << >> THEN "ValueError" ELSE NoException ]
    /\ UNCHANGED << pc, analyzer, self_results, self_city_results, files, completed,
                    loader_vars, tsne_vars, file_vars,
                    pca_vars, tester_vars, city_vars, compare_vars, stat_vars,
                    lag_vars, run_vars >>

\* generate_results_section: the same guard; absent outcomes are skipped
GenerateResultsSection ==
    /\ pc = "instance"
    /\ raised' = [ op |-> "generate_results_section",
                   exc |-> IF self_results = << >> THEN "ValueError" ELSE NoException ]
    /\ UNCHANGED << pc, analyzer, self_results, self_city_results, files, completed,
                    loader_vars, tsne_vars, file_vars,
                    pca_vars, tester_vars, city_vars, compare_vars, stat_vars,
                    lag_vars, run_vars >>

\* save_outputs(output_dir): the guard, then the files of self.results
InstanceSaveOutputs ==
    /\ pc = "instance"
    /\ IF self_results = << >>
       THEN /\ raised' = [ op |-> "save_outputs", exc |-> "ValueError" ]
            /\ UNCHANGED files
       ELSE /\ raised' = [ op |-> "save_outputs", exc |-> NoException ]
            /\ files' = WriteOutputs(files, "output_dir")
    /\ UNCHANGED << pc, analyzer, self_results, self_city_results, completed,
                    loader_vars, tsne_vars, file_vars,
                    pca_vars, tester_vars, city_vars, compare_vars, stat_vars,
                    lag_vars, run_vars >>

\* CityAnalyzer.save_city_outputs: city_key must be in city_results; then
\* self.save_outputs(city_dir)
SaveCityOutputs(c) ==
    /\ pc = "instance"
    /\ IF c \notin DOMAIN self_city_results
       THEN /\ raised' = [ op |-> "save_city_outputs", exc |-> "ValueError" ]
            /\ UNCHANGED files
       ELSE /\ raised' = [ op |-> "save_city_outputs", exc |-> NoException ]
            /\ files' = WriteOutputs(files, c)
    /\ UNCHANGED << pc, analyzer, self_results, self_city_results, completed,
                    loader_vars, tsne_vars, file_vars,
                    pca_vars, tester_vars, city_vars, compare_vars, stat_vars,
                    lag_vars, run_vars >>

\* BaseAnalyzer.__init__ and CityAnalyzer.__init__
InitInstance ==
    /\ pc = "instance"
    /\ analyzer \in AnalyzerKinds
    /\ self_results = << >>
    /\ self_city_results = << >>
    /\ files = << >>
    /\ raised = [ op |-> "none", exc |-> NoException ]
    /\ completed = 0
    /\ IdleLoader
    /\ IdleTsne
    /\ IdleFile
    /\ IdlePCA
    /\ IdleTester
    /\ IdleCity
    /\ IdleCompare
    /\ IdleStat
    /\ IdleLag
    /\ IdleRun

NextInstance ==
    \/ \E c \in InstanceCities, table \in InstanceTables : AnalyzeCity(c, table)
    \/ GenerateMethodsSection
    \/ GenerateResultsSection
    \/ InstanceSaveOutputs
    \/ \E c \in InstanceCities : SaveCityOutputs(c)

SpecInstance == InitInstance /\ [][NextInstance]_vars

----------------------------------------------------------------------------
(* Data-file maintenance: remove_unnamed_column on one CSV file.  A file is *)
(* its header columns and whether it was written completely; csv_columns   *)
(* is the header of the file on entry, which is what read_csv returns.     *)

UNNAMED == "Unnamed: 0"

\* a completely written CSV file with the given header
CsvFile(columns) == [ exists |-> TRUE, columns |-> columns, intact |-> TRUE ]

\* what an interrupted write leaves at the path
PartialFile == [ exists |-> TRUE, columns |-> {}, intact |-> FALSE ]

\* the data file's content on entry (no step deletes the data file)
FileOnEntry == IF data_file.exists THEN CsvFile(csv_columns) ELSE MissingFile

\* a copy that leaves the destination as it was
Copy2Skipped(src, dst) == dst
\* shutil.copy2(src, dst): the destination afterwards
Copy2(src, dst) == src

\* lines 36-38: a missing file is reported and nothing else happens
RemoveStart ==
    /\ pc = "rm_start"
    /\ IF ~data_file.exists
       THEN /\ returned' = "False"
            /\ pc' = "rm_done"
       ELSE /\ pc' = "rm_backup"
            /\ UNCHANGED returned
    /\ UNCHANGED << csv_columns, data_file, backup, backup_path, restore_failed,
                    loader_vars, tsne_vars, instance_vars,
                    pca_vars, tester_vars, city_vars, compare_vars, stat_vars,
                    lag_vars, run_vars >>

\* line 44 and backup_file: copy2 to the timestamped path; backup_path is
\* bound only when backup_file returns
BackupFile(ok) ==
    /\ pc = "rm_backup"
    /\ IF ok
       THEN /\ backup' = Copy2(data_file, backup)
            /\ backup_path' = TRUE
            /\ pc' = "rm_read"
       ELSE /\ backup' \in { MissingFile, PartialFile }
            /\ backup_path' = FALSE
            /\ pc' = "rm_except"
    /\ UNCHANGED << csv_columns, data_file, returned, restore_failed,
                    loader_vars, tsne_vars, instance_vars,
                    pca_vars, tester_vars, city_vars, compare_vars, stat_vars,
                    lag_vars, run_vars >>

\* line 48: pd.read_csv(file_path)
ReadCsv(ok) ==
    /\ pc = "rm_read"
    /\ pc' = IF ok THEN "rm_check" ELSE "rm_except"
    /\ UNCHANGED << file_vars, loader_vars, tsne_vars, instance_vars,
                    pca_vars, tester_vars, city_vars, compare_vars, stat_vars,
                    lag_vars, run_vars >>

\* lines 54-59: without the column the backup just made is removed and the
\* call returns True
CheckColumn ==
    /\ pc = "rm_check"
    /\ IF UNNAMED \notin csv_columns
       THEN /\ backup' = MissingFile
            /\ returned' = "True"
            /\ pc' = "rm_done"
       ELSE /\ pc' = "rm_write"
            /\ UNCHANGED << backup, returned >>
    /\ UNCHANGED << csv_columns, data_file, backup_path, restore_failed,
                    loader_vars, tsne_vars, instance_vars,
                    pca_vars, tester_vars, city_vars, compare_vars, stat_vars,
                    lag_vars, run_vars >>

\* lines 63-71: drop the column and overwrite the data file; a write that
\* raises may have truncated the file
SaveCleaned(ok) ==
    /\ pc = "rm_write"
    /\ IF ok
       THEN /\ data_file' = CsvFile(csv_columns \ { UNNAMED })
            /\ pc' = "rm_verify"
       ELSE /\ data_file' \in { data_file, PartialFile }
            /\ pc' = "rm_except"
    /\ UNCHANGED << csv_columns, backup, backup_path, returned, restore_failed,
                    loader_vars, tsne_vars, instance_vars,
                    pca_vars, tester_vars, city_vars, compare_vars, stat_vars,
                    lag_vars, run_vars >>

\* lines 76-97: re-read five rows; if the column is still seen, copy the
\* backup over the data file and return False
VerifySaved(seen, ok) ==
    /\ pc = "rm_verify"
    /\ CASE seen = "removed" ->
              /\ returned' = "True"
              /\ pc' = "rm_done"
              /\ UNCHANGED data_file
         [] seen = "present" /\ ok ->
              /\ data_file' = Copy2(backup, data_file)
              /\ returned' = "False"
              /\ pc' = "rm_done"
         [] seen = "present" /\ ~ok ->
              /\ data_file' \in { data_file, PartialFile }
              /\ pc' = "rm_except"
              /\ UNCHANGED returned
         [] OTHER ->
              /\ pc' = "rm_except"
              /\ UNCHANGED << data_file, returned >>
    /\ UNCHANGED << csv_columns, backup, backup_path, restore_failed,
                    loader_vars, tsne_vars, instance_vars,
                    pca_vars, tester_vars, city_vars, compare_vars, stat_vars,
                    lag_vars, run_vars >>

\* lines 99-111: restore from the backup when backup_path is bound and the
\* backup exists; a failing restore is only reported; return False
HandleException(ok) ==
    /\ pc = "rm_except"
    /\ IF backup_path /\ backup.exists
       THEN IF ok
            THEN /\ data_file' = Copy2(backup, data_file)
                 /\ UNCHANGED restore_failed
            ELSE /\ data_file' \in { data_file, PartialFile }
                 /\ restore_failed' = TRUE
       ELSE UNCHANGED << data_file, restore_failed >>
    /\ returned' = "False"
    /\ pc' = "rm_done"
    /\ UNCHANGED << csv_columns, backup, backup_path,
                    loader_vars, tsne_vars, instance_vars,
                    pca_vars, tester_vars, city_vars, compare_vars, stat_vars,
                    lag_vars, run_vars >>

\* headers of the files the tool is pointed at
HeaderPool == { UNNAMED, "date", "townvill", "pos" }

InitFile ==
    /\ pc = "rm_start"
    /\ csv_columns \in SUBSET HeaderPool
    /\ data_file \in { CsvFile(csv_columns) } \cup
                     (IF csv_columns = {} THEN { MissingFile } ELSE {})
    /\ backup = MissingFile
    /\ backup_path = FALSE
    /\ returned = "none"
    /\ restore_failed = FALSE
    /\ IdleLoader
    /\ IdleTsne
    /\ IdleInstance
    /\ IdlePCA
    /\ IdleTester
    /\ IdleCity
    /\ IdleCompare
    /\ IdleStat
    /\ IdleLag
    /\ IdleRun

NextFile ==
    \/ RemoveStart
    \/ \E ok \in BOOLEAN : BackupFile(ok)
    \/ \E ok \in BOOLEAN : ReadCsv(ok)
    \/ CheckColumn
    \/ \E ok \in BOOLEAN : SaveCleaned(ok)
    \/ \E seen \in { "removed", "present", "raises" }, ok \in BOOLEAN :
         VerifySaved(seen, ok)
    \/ \E ok \in BOOLEAN : HandleException(ok)

SpecFile == InitFile /\ [][NextFile]_vars

----------------------------------------------------------------------------
(* Feature classifier: DataLoader.get_feature_columns and                  *)
(* get_feature_groups.  A column name is the sequence of its characters.   *)

\* config.IGNORE_COLUMNS; the two characters of the third name are written
\* as their code points
IGNORE_COLUMNS ==
    { << "d", "a", "t", "e" >>,
      << "t", "o", "w", "n", "v", "i", "l", "l" >>,
      << "U+7E23", "U+5E02" >> }

\* config.TARGETS, as column names
TARGET_COLUMNS ==
    { << "p", "o", "s" >>,
      << "e", "g", "g" >> }

\* line 214: the city columns added during merging
CITY_COLUMNS ==
    { << "c", "i", "t", "y" >>,
      << "c", "i", "t", "y", "_", "z", "h" >>,
      << "c", "i", "t", "y", "_", "a", "b", "b", "r" >> }

\* config.FEATURE_GROUPS['demographic']['variables']
DEMOGRAPHIC_VARIABLES ==
    { << "s", "e", "x" >>,
      << "h", "o", "m", "e" >>,
      << "d", "e", "n", "s", "i", "t", "y" >>,
      << "f", "e", "e", "d" >>,
      << "f", "e", "e", "d", "c", "h", "i", "l", "d" >>,
      << "f", "e", "e", "d", "e", "l", "d", "e", "r" >>,
      << "e", "l", "d", "e", "r", "i", "n", "d", "e", "x" >> }

TEMPERATURE_PREFIXES ==
    { << "H", "_", "t", "e", "m", "p" >>,
      << "M", "_", "t", "e", "m", "p" >>,
      << "L", "_", "t", "e", "m", "p" >> }

RAINFALL_PREFIXES ==
    { << "R", "_" >> }

NDVI_PREFIXES ==
    { << "N", "D", "V", "I", "m", "e", "a", "n" >>,
      << "N", "D", "V", "I", "m", "e", "d", "i", "a", "n" >>,
      << "N", "D", "V", "I", "s", "u", "m" >> }

\* str.startswith
StartsWith(name, prefix) ==
    Len(name) >= Len(prefix) /\ SubSeq(name, 1, Len(prefix)) = prefix

\* lines 205-218: get_feature_columns(df, include_targets=False)
GetFeatureColumns(columns) ==
    SelectSeq(columns,
              LAMBDA col : col \notin IGNORE_COLUMNS \cup TARGET_COLUMNS \cup CITY_COLUMNS)

\* lines 296-308: the branch a column takes
GroupOfColumn(col) ==
    IF \E var \in TEMPERATURE_PREFIXES : StartsWith(col, var) THEN "temperature"
    ELSE IF \E var \in RAINFALL_PREFIXES : StartsWith(col, var) THEN "rainfall"
    ELSE IF \E var \in NDVI_PREFIXES : StartsWith(col, var) THEN "ndvi"
    ELSE IF col \in DEMOGRAPHIC_VARIABLES THEN "demographic"
    ELSE "none"

\* lines 287-310: get_feature_groups
GetFeatureGroups(columns) ==
    [ g \in { "temperature", "rainfall", "ndvi", "demographic" } |->
        SelectSeq(GetFeatureColumns(columns), LAMBDA col : GroupOfColumn(col) = g) ]

\* statistical_analyzer.py lines 64-65: both calls on the table
ClassifyFeatures ==
    /\ pc = "classify"
    /\ feature_cols' = GetFeatureColumns(df_columns)
    /\ groups' = GetFeatureGroups(df_columns)
    /\ pc' = "classified"
    /\ UNCHANGED << df_columns, tsne_vars, file_vars, instance_vars,
                    pca_vars, tester_vars, city_vars, compare_vars, stat_vars,
                    lag_vars, run_vars >>

\* column names a table may have
ColumnPool ==
    << << "d", "a", "t", "e" >>,
       << "p", "o", "s" >>,
       << "c", "i", "t", "y" >>,
       << "H", "_", "t", "e", "m", "p", "_", "l", "a", "g", "_", "1" >>,
       << "R", "_", "l", "a", "g", "_", "r", "o", "l", "l", "i", "n", "g", "2" >>,
       << "N", "D", "V", "I", "s", "u", "m", "_", "l", "a", "g", "3" >>,
       << "f", "e", "e", "d" >>,
       << "f", "e", "e", "d", "c", "h", "i", "l", "d" >>,
       << "R" >>,
       << "w", "e", "e", "k" >>,
       << "U", "n", "n", "a", "m", "e", "d", ":", " ", "0" >> >>

InitClassify ==
    /\ pc = "classify"
    /\ \E S \in SUBSET { ColumnPool[i] : i \in 1..Len(ColumnPool) } :
         df_columns = SelectSeq(ColumnPool, LAMBDA col : col \in S)
    /\ feature_cols = << >>
    /\ groups = << >>
    /\ IdleTsne
    /\ IdleFile
    /\ IdleInstance
    /\ IdlePCA
    /\ IdleTester
    /\ IdleCity
    /\ IdleCompare
    /\ IdleStat
    /\ IdleLag
    /\ IdleRun

SpecClassify == InitClassify /\ [][ClassifyFeatures]_vars

----------------------------------------------------------------------------
(* Pipeline Orchestrator: run_full_analysis.main and run_city_analysis.    *)
(* main calls no configuration check and has no exception handler: an      *)
(* exception raised by a loader or an analyzer leaves main.                *)

\* running the lag scan before the reduction and the cluster selection
ANALYSESLagSecond == << "statistical", "lag_rolling", "pca_clustering" >>

\* lines 52-90: the analyses of run_city_analysis, in the order they run
ANALYSES == << "statistical", "pca_clustering", "lag_rolling" >>

\* the configuration values main may run under: the configured ones, a
\* cluster-count maximum below the minimum, a variance target outside (0, 1]
RunConfigs ==
    [ k_min : { CLUSTERING_K_MIN },
      k_max : { CLUSTERING_K_MIN - 1, CLUSTERING_K_MAX },
      variance_target : { 0, PCA_VARIANCE_TARGET, Scale + 1 } ]

\* config.CLUSTERING_K_RANGE = list(range(K_MIN, K_MAX + 1)) is empty
EmptyKRange(cfg) == cfg.k_max < cfg.k_min

RunRaise(city, st, e) ==
    /\ pc' = "error"
    /\ run_error' = [ city |-> city, stage |-> st, exception |-> e ]

\* lines 233-235: loader.load_city_data(city_key); a missing file raises
LoadCity ==
    /\ pc = "load"
    /\ c_idx <= Len(CITY_ORDER)
    /\ \E found \in BOOLEAN :
         IF found
         THEN /\ city_dataframes' = city_dataframes \cup { CITY_ORDER[c_idx] }
              /\ c_idx' = c_idx + 1
              /\ UNCHANGED << pc, run_error >>
         ELSE /\ RunRaise(CITY_ORDER[c_idx], "load", "FileNotFoundError")
              /\ UNCHANGED << city_dataframes, c_idx >>
    /\ UNCHANGED << run_config, stage, all_city_results, outputs, run_results,
                    pca_vars, tester_vars, city_vars, compare_vars, stat_vars,
                    lag_vars, ext_vars >>

\* line 238: the second loop over CITY_ORDER starts
StartAnalyses ==
    /\ pc = "load"
    /\ c_idx > Len(CITY_ORDER)
    /\ pc' = "analyse"
    /\ c_idx' = 1
    /\ stage' = 1
    /\ UNCHANGED << run_config, city_dataframes, all_city_results, outputs,
                    run_error, run_results,
                    pca_vars, tester_vars, city_vars, compare_vars, stat_vars,
                    lag_vars, ext_vars >>

\* the exception an analysis may end in: IndexError from the statistical
\* report, ValueError or KeyError from the cluster selection (KeyError
\* always, on an empty candidate range), KeyError from the lag scan
AnalysisOutcomes(cfg, analysis) ==
    IF analysis = "statistical" THEN { NoException, "IndexError" }
    ELSE IF analysis = "pca_clustering"
         THEN IF EmptyKRange(cfg) THEN { "KeyError" }
              ELSE { NoException, "ValueError" }
         ELSE { NoException, "KeyError" }

\* lines 58-60, 71-73, 84-86: one analyzer's analyze(df, city_key)
RunAnalysis ==
    /\ pc = "analyse"
    /\ \E e \in AnalysisOutcomes(run_config, ANALYSES[stage]) :
         IF e = NoException
         THEN /\ pc' = "save"
              /\ run_results' = run_results \cup { ANALYSES[stage] }
              /\ UNCHANGED run_error
         ELSE /\ RunRaise(CITY_ORDER[c_idx], ANALYSES[stage], e)
              /\ UNCHANGED run_results
    /\ UNCHANGED << run_config, c_idx, stage, city_dataframes, all_city_results,
                    outputs,
                    pca_vars, tester_vars, city_vars, compare_vars, stat_vars,
                    lag_vars, ext_vars >>

\* lines 63-64, 76-77, 89-90: save_outputs(output_dir) of the analyzer that
\* just ran; after the last one run_city_analysis returns and main records
\* the city's results (lines 240-241)
SaveOutputs ==
    /\ pc = "save"
    /\ outputs' = outputs \cup { << CITY_ORDER[c_idx], ANALYSES[stage] >> }
    /\ IF stage < Len(ANALYSES)
       THEN /\ stage' = stage + 1
            /\ pc' = "analyse"
            /\ UNCHANGED << c_idx, all_city_results, run_results >>
       ELSE /\ all_city_results' = all_city_results @@
                 (CITY_ORDER[c_idx] :> run_results)
            /\ run_results' = {}
            /\ c_idx' = c_idx + 1
            /\ stage' = 1
            /\ pc' = IF c_idx < Len(CITY_ORDER) THEN "analyse" ELSE "compare"
    /\ UNCHANGED << run_config, city_dataframes, run_error,
                    pca_vars, tester_vars, city_vars, compare_vars, stat_vars,
                    lag_vars, ext_vars >>

\* lines 248-252: the cross-city comparison and its outputs
CompareCities ==
    /\ pc = "compare"
    /\ outputs' = outputs \cup { << "comparison", "comparison" >> }
    /\ pc' = "finished"
    /\ UNCHANGED << run_config, c_idx, stage, city_dataframes, all_city_results,
                    run_error, run_results,
                    pca_vars, tester_vars, city_vars, compare_vars, stat_vars,
                    lag_vars, ext_vars >>

\* main() starts: nothing loaded, nothing written
InitRun ==
    /\ pc = "load"
    /\ run_config \in RunConfigs
    /\ c_idx = 1
    /\ stage = 1
    /\ city_dataframes = {}
    /\ all_city_results = << >>
    /\ outputs = {}
    /\ run_error = [ city |-> "none", stage |-> "none", exception |-> NoException ]
    /\ run_results = {}
    /\ IdlePCA
    /\ IdleTester
    /\ IdleCity
    /\ IdleCompare
    /\ IdleStat
    /\ IdleLag
    /\ IdleExt

NextRun ==
    \/ LoadCity
    \/ StartAnalyses
    \/ RunAnalysis
    \/ SaveOutputs
    \/ CompareCities

SpecRun == InitRun /\ [][NextRun]_vars

----------------------------------------------------------------------------
(* Claims on the Dimensionality Reducer and the Cluster Selector *)

Returned == pc = "done"

RowOfK(rows, k) == CHOOSE i \in 1..Len(rows) : rows[i].k = k

C2_TieWithinTolerance ==
    Returned =>
      \A r \in Runs : \A j \in 1..Len(metrics_results[r]) :
        LET row == metrics_results[r][j]
            best == results[r].optimal_silhouette
        IN  (best.v - row.silhouette.v <= 1) => row.k >= results[r].optimal_k

\* C2, amended: among the candidates whose Silhouette is exactly equal to
\* the best one, the smallest k is selected.
C2_ExactTieSmallestK ==
    Returned =>
      \A r \in Runs : \A j \in 1..Len(metrics_results[r]) :
        LET row == metrics_results[r][j]
        IN  row.silhouette = results[r].optimal_silhouette
              => row.k >= results[r].optimal_k

\* two candidates tie exactly on the best Silhouette; a smaller k scored less
C2_Witness ==
    /\ Returned
    /\ \E i, j \in 1..Len(metrics_results[1]) :
         /\ i < j
         /\ metrics_results[1][i].silhouette = results[1].optimal_silhouette
         /\ metrics_results[1][j].silhouette = results[1].optimal_silhouette
         /\ metrics_results[1][i].k = results[1].optimal_k
         /\ results[1].optimal_k > CLUSTERING_K_MIN

PCAReturned == pc \in {"cluster", "done"} \/ (pc = "error" /\ pca_results[1] # << >>)

\* C3: n_components is the smallest count C whose cumulative
\* explained-variance ratio is >= the target: total_variance_explained is
\* >= the target and the first C-1 components cumulate to less.
C3_SmallestCountReachingTarget ==
    PCAReturned =>
      \A r \in Runs :
        LET res == pca_results[r]
            cumvar == CumSum(res.all_explained_variance)
        IN  /\ FGe(res.total_variance_explained, F(variance_target))
            /\ FGe(cumvar[res.n_components], F(variance_target))
            /\ \A i \in 1..(res.n_components - 1) :
                 FLt(cumvar[i], F(variance_target))

Degenerate == X_scaled.n_distinct <= 1

\* C6: on a table whose rows are all identical after standardization the
\* analysis never scores a candidate and never returns an optimal_k; it
\* ends in an exception.
C6_DegenerateFailsFast ==
    Degenerate =>
      /\ ~Returned
      /\ \A r \in Runs : results[r] = NoResult /\ metrics_results[r] = << >>
      /\ (pc = "cluster" => k_idx = 1)
      /\ (pc = "error" => error # NoException)

\* many identical rows: PCA went through, the first candidate raised
C6_Witness ==
    /\ Degenerate
    /\ X_scaled.n_samples = LargeN
    /\ pc = "error"
    /\ error = "ValueError"
    /\ pca_results[1] # << >>
    /\ pca_results[1].n_components = 1

\* C7: for the same matrix, a smaller variance target never selects more
\* components than a larger one.
C7_MonotoneInTarget ==
    PCAReturned =>
      \A r \in Runs : \A t \in 1..Scale :
        t <= variance_target =>
          NComponentsTarget(CumSum(pca_results[r].all_explained_variance), t)
             <= pca_results[r].n_components

SameInput == index_trend[1] = index_trend[2]

\* C8: two runs on the same matrix with the configured seed produce the
\* same PCA result, the same per-k metric values and the same selected k.
C8_Deterministic ==
    SameInput =>
      /\ pca_results[1] = pca_results[2]
      /\ metrics_results[1] = metrics_results[2]
      /\ results[1] = results[2]

C8_Witness ==
    /\ SameInput
    /\ Returned
    /\ Len(results[1].clustering_metrics) = CLUSTERING_K_MAX - CLUSTERING_K_MIN + 1
    /\ results[2].optimal_k > CLUSTERING_K_MIN
    /\ \E i, j \in 1..Len(metrics_results[2]) :
         metrics_results[2][i].silhouette # metrics_results[2][j].silhouette

----------------------------------------------------------------------------
(* Claims on the Group Significance Tester *)

\* C4: for each outcome handled by _test_cluster_outcome_relationships the
\* Dunn matrix is computed if and only if the Kruskal-Wallis p-value is
\* below 0.05; otherwise the stored value is None, not a matrix; the
\* statistic and the p-value of the omnibus test are stored in both cases.
C4_DunnIffSignificant ==
    /\ DOMAIN test_results = DOMAIN calls.kruskal
    /\ \A target \in DOMAIN test_results :
         LET e == test_results[target]
             kw == calls.kruskal[target]
             below == ~kw.p.nan /\ kw.p.v < KRUSKAL_ALPHA
         IN  /\ e.kruskal_h = kw.h
             /\ e.kruskal_p = kw.p
             /\ (target \in calls.dunn) <=> below
             /\ (e.dunn_pvalues # None) <=> below
             /\ ~below => e.dunn_pvalues = None
             /\ below => e.dunn_pvalues.n = df_clustered.optimal_k
    /\ calls.dunn \subseteq DOMAIN test_results

\* one outcome exactly at 0.05 stored None, the other one below 0.05 and
\* its matrix of zeros stored
C4_Witness ==
    /\ pc = "tested"
    /\ DOMAIN test_results = TargetSet
    /\ test_results["pos"].kruskal_p = F(KRUSKAL_ALPHA)
    /\ test_results["pos"].dunn_pvalues = None
    /\ test_results["egg"].kruskal_p = F(KRUSKAL_ALPHA - 1)
    /\ test_results["egg"].dunn_pvalues =
         DunnMatrix(df_clustered.optimal_k, F(0))

\* C5: in the cross-city descriptive comparison the pairwise matrix of an
\* outcome is computed, and saved, only if that outcome's omnibus p-value
\* is below 0.05.
C5_CityDunnOnlyIfSignificant ==
    /\ \A target \in DOMAIN dunn_results :
         /\ target \in DOMAIN kruskal_results
         /\ FLt(kruskal_results[target].p_value, F(KRUSKAL_ALPHA))
    /\ \A target \in CityTargetSet :
         << "dunn_posthoc", target >> \in saved =>
            /\ target \in DOMAIN kruskal_results
            /\ FLt(kruskal_results[target].p_value, F(KRUSKAL_ALPHA))

----------------------------------------------------------------------------
(* Claims on the Cross-unit Comparator *)

Compared == pc = "compared"

\* the units that supplied correlation results for the target
Suppliers(target) ==
    { c \in CitySet : c \in DOMAIN city_results /\ target \in DOMAIN city_results[c] }

\* the feature is significant-and-strong in the unit: both values defined,
\* p < 0.001 and |rho| > 0.3
Qualifies(c, target, f) ==
    LET rho == city_results[c][target].corr[f]
        p == city_results[c][target].pval[f]
    IN  /\ ~rho.nan /\ ~p.nan
        /\ p.v < UNIVERSAL_PREDICTOR_P_THRESHOLD
        /\ (rho.v > UNIVERSAL_PREDICTOR_RHO_THRESHOLD
              \/ rho.v < -UNIVERSAL_PREDICTOR_RHO_THRESHOLD)

\* C9: the universal predictors of an outcome are exactly the features that
\* qualify in every unit that supplied results for it; units that supplied
\* none are left out; an outcome nobody supplied has no entry.
C9_UniversalIsIntersection ==
    Compared =>
      /\ DOMAIN predictors.universal_predictors
           = { t \in TargetSet : Suppliers(t) # {} }
      /\ \A t \in DOMAIN predictors.universal_predictors :
           predictors.universal_predictors[t]
             = { f \in Features : \A c \in Suppliers(t) : Qualifies(c, t, f) }

\* one unit supplied nothing, the others agree on feature 2 and differ on
\* feature 1, whose values sit at a threshold or are undefined somewhere
C9_Witness ==
    /\ Compared
    /\ \E t \in TargetSet :
         /\ Cardinality(Suppliers(t)) = Len(CITY_ORDER) - 1
         /\ t \in DOMAIN predictors.universal_predictors
         /\ predictors.universal_predictors[t] = {2}
         /\ \E c \in Suppliers(t) : Qualifies(c, t, 1)
         /\ \E c \in Suppliers(t) :
              city_results[c][t].corr[1] = F(UNIVERSAL_PREDICTOR_RHO_THRESHOLD)
         /\ \E c \in Suppliers(t) :
              city_results[c][t].pval[1] = F(UNIVERSAL_PREDICTOR_P_THRESHOLD)

\* C10: no feature is listed both in the universal predictors and in the
\* unit-specific predictors of an outcome, whatever the number of units
\* supplying results.
C10_UniversalDisjointFromSpecific ==
    Compared =>
      \A t \in DOMAIN predictors.universal_predictors :
        predictors.universal_predictors[t]
          \cap DOMAIN predictors.city_specific_predictors[t] = {}

\* the units in which the feature is significant-and-strong
QualifyingUnits(t, f) == { c \in Suppliers(t) : Qualifies(c, t, f) }

SeqRange(q) == { q[i] : i \in 1..Len(q) }

\* C11: with three or more units supplying results for an outcome, a
\* feature significant-and-strong in exactly two of them is listed in the
\* unit-specific predictors, mapped to exactly those two units, and is not
\* listed in the universal predictors.
C11_TwoOfThreeIsUnitSpecific ==
    Compared =>
      \A t \in TargetSet : \A f \in Features :
        (Cardinality(Suppliers(t)) >= 3 /\ Cardinality(QualifyingUnits(t, f)) = 2)
          => /\ f \in DOMAIN predictors.city_specific_predictors[t]
             /\ Len(predictors.city_specific_predictors[t][f]) = 2
             /\ SeqRange(predictors.city_specific_predictors[t][f])
                  = QualifyingUnits(t, f)
             /\ f \notin predictors.universal_predictors[t]

\* exactly three units supply; feature 1 qualifies in two of them and is
\* listed for them, feature 2 qualifies in all three and is universal
C11_Witness ==
    /\ Compared
    /\ \E t \in TargetSet :
         /\ Cardinality(Suppliers(t)) = 3
         /\ Cardinality(QualifyingUnits(t, 1)) = 2
         /\ 1 \in DOMAIN predictors.city_specific_predictors[t]
         /\ predictors.universal_predictors[t] = {2}

----------------------------------------------------------------------------
(* Claims on the Correlation Screener *)

\* C12: bonferroni_correction returns alpha / n with n the number of
\* p-values passed, undefined ones included, and flags a p-value if and
\* only if it is defined and strictly below alpha / n.
C12_BonferroniThreshold ==
    pc = "top" =>
      LET n == Len(p_values)
      IN  /\ corrected_alpha.num = BONFERRONI_ALPHA
          /\ corrected_alpha.den = n
          /\ DOMAIN significant = 1..n
          /\ \A i \in 1..n :
               significant[i] <=>
                 (~p_values[i].nan /\ p_values[i].v * n < BONFERRONI_ALPHA)

\* two p-values, one undefined, the other between alpha / 2 - 1 and alpha / 2;
\* and a p-value exactly at alpha / 2 would not be flagged
C12_Witness ==
    /\ pc = "top"
    /\ Len(p_values) = 2
    /\ p_values[1] = NaN
    /\ p_values[2] = F(BONFERRONI_ALPHA \div 2 - 1)
    /\ significant = << FALSE, TRUE >>

\* C13: calculate_correlation returns one coefficient and one p-value per
\* feature, computed over exactly the rows where that feature and the
\* outcome are both non-null; with no such row both are NaN.
C13_PairwiseComplete ==
    pc = "bonferroni" =>
      LET target == TARGETS[s_idx]
          fs == 1..Len(df.features)
      IN  /\ DOMAIN correlations = fs
          /\ DOMAIN p_values = fs
          /\ \A f \in fs :
               LET rows == { r \in 1..df.n_rows :
                               /\ r \in df.notna_feature[f]
                               /\ r \in df.notna_target[target] }
               IN  IF rows = {}
                   THEN /\ correlations[f] = NaN
                        /\ p_values[f] = NaN
                        /\ f \notin DOMAIN spearman_calls
                   ELSE /\ f \in DOMAIN spearman_calls
                        /\ spearman_calls[f] = rows

\* feature 1 is null in every row, feature 2 in none: feature 1 is
\* undefined, feature 2 is computed over all the rows
C13_Witness ==
    /\ pc = "bonferroni"
    /\ Len(df.features) = 2
    /\ df.n_rows = MaxRows
    /\ df.notna_feature[1] = {}
    /\ correlations[1] = NaN
    /\ p_values[1] = NaN
    /\ DOMAIN spearman_calls = {2}
    /\ spearman_calls[2] = 1..MaxRows
    /\ correlations[2] = F(10)

\* the results with a defined coefficient
DefinedResults == { i \in 1..Len(correlations) : ~correlations[i].nan }

TableFeatures(table) == { table[k].feature : k \in 1..Len(table) }

\* the table lists distinct defined results with their own coefficients
ListsDefinedResults(table) ==
    /\ \A k \in 1..Len(table) :
         /\ table[k].feature \in DefinedResults
         /\ table[k].correlation = correlations[table[k].feature]
    /\ Cardinality(TableFeatures(table)) = Len(table)

\* C14: after dropping undefined results, the positive table holds the N
\* largest signed coefficients in descending order and the negative table
\* the N smallest in ascending order, N = 20; each has
\* min(N, number of defined results) rows and no undefined coefficient.
C14_TopNBySignedCoefficient ==
    pc = "report" =>
      /\ Len(top_pos) = Min2(N_TOP_CORRELATIONS, Cardinality(DefinedResults))
      /\ Len(top_neg) = Min2(N_TOP_CORRELATIONS, Cardinality(DefinedResults))
      /\ ListsDefinedResults(top_pos)
      /\ ListsDefinedResults(top_neg)
      /\ \A k \in 1..(Len(top_pos) - 1) :
           top_pos[k].correlation.v >= top_pos[k + 1].correlation.v
      /\ \A k \in 1..(Len(top_neg) - 1) :
           top_neg[k].correlation.v <= top_neg[k + 1].correlation.v
      /\ \A i \in DefinedResults \ TableFeatures(top_pos) : \A k \in 1..Len(top_pos) :
           correlations[i].v <= top_pos[k].correlation.v
      /\ \A i \in DefinedResults \ TableFeatures(top_neg) : \A k \in 1..Len(top_neg) :
           correlations[i].v >= top_neg[k].correlation.v

\* the outcome's results are those of the scenario: feature 1 perfectly
\* rank-correlated, feature 2 noise with a p-value not below alpha / 2
ScenarioResult(e) ==
    /\ Len(e.correlations) = 2
    /\ e.correlations[1] = F(10)
    /\ e.p_values[1] = F(0)
    /\ ~e.correlations[2].nan
    /\ e.correlations[2].v \in -1..1
    /\ ~e.p_values[2].nan
    /\ e.p_values[2].v * 2 >= BONFERRONI_ALPHA

\* C15: on a table with a perfectly rank-correlated feature and a noise
\* feature, analyze raises nothing and returns results where the first
\* feature is in the top-positive table and the second is not flagged,
\* whatever the sign of the noise coefficient.
C15_ScenarioCompletes ==
    (DOMAIN stat_results # {}
       /\ \A t \in DOMAIN stat_results : ScenarioResult(stat_results[t]))
      => /\ pc # "error"
         /\ pc = "analysed" =>
              \A t \in DOMAIN stat_results :
                /\ 1 \in TableFeatures(stat_results[t].top_positive)
                /\ ~stat_results[t].significant[2]

----------------------------------------------------------------------------
(* Claims on the Lag Scanner *)

\* the variables with a row in the matrix
FrameVariables(frame) == { frame[i].variable : i \in 1..Len(frame) }

\* the coefficients scanned for the variable in the matrix, defined or not
Scanned(frame, v) ==
    IF v \in FrameVariables(frame)
    THEN (CHOOSE i \in 1..Len(frame) : frame[i].variable = v)
    ELSE 0

DefinedWeeks(frame, v) ==
    IF Scanned(frame, v) = 0 THEN {}
    ELSE { w \in 1..Len(LAG_RANGE) : ~frame[Scanned(frame, v)].lags[w].nan }

AbsV(x) == IF x < 0 THEN -x ELSE x

\* the reported week and coefficient are an optimum of the variable's
\* scanned coefficients: maximal in absolute value, signed as scanned, and
\* NaN when nothing defined was scanned
IsOptimum(frame, v, week, corr) ==
    IF DefinedWeeks(frame, v) = {}
    THEN week = NaN /\ corr = NaN
    ELSE /\ ~week.nan
         /\ week.v \in DefinedWeeks(frame, v)
         /\ corr = frame[Scanned(frame, v)].lags[week.v]
         /\ \A w \in DefinedWeeks(frame, v) :
              AbsV(frame[Scanned(frame, v)].lags[w].v) <= AbsV(corr.v)

\* C16: for every variable scanned in either family, _find_optimal_lags
\* returns a row whose simple and rolling optima are optima of the
\* coefficients scanned for it in that family, NaN when none is defined.
C16_OptimalIsMaxAbs ==
    pc \in {"lagged", "error"} =>
      /\ pc = "lagged"
      /\ \A v \in FrameVariables(lag_simple_df) \cup FrameVariables(lag_rolling_df) :
           \E i \in 1..Len(optimal_lags) :
             /\ optimal_lags[i].variable = v
             /\ IsOptimum(lag_simple_df, v,
                          optimal_lags[i].optimal_lag_simple_weeks,
                          optimal_lags[i].optimal_lag_simple_correlation)
             /\ IsOptimum(lag_rolling_df, v,
                          optimal_lags[i].optimal_lag_rolling_weeks,
                          optimal_lags[i].optimal_lag_rolling_correlation)

\* the maximum absolute value among the defined coefficients scanned
MaxAbs(frame, v) ==
    LET abs_values == { AbsV(frame[Scanned(frame, v)].lags[w].v) :
                          w \in DefinedWeeks(frame, v) }
    IN  CHOOSE m \in abs_values : \A x \in abs_values : x <= m

\* C17 as written: the reported optimal correlation equals the maximum
\* absolute value among the defined coefficients scanned.
C17_ReportedEqualsMaxAbs ==
    pc = "lagged" =>
      \A i \in 1..Len(optimal_lags) :
        LET v == optimal_lags[i].variable
        IN  /\ DefinedWeeks(lag_simple_df, v) # {} =>
                 optimal_lags[i].optimal_lag_simple_correlation
                   = F(MaxAbs(lag_simple_df, v))
            /\ DefinedWeeks(lag_rolling_df, v) # {} =>
                 optimal_lags[i].optimal_lag_rolling_correlation
                   = F(MaxAbs(lag_rolling_df, v))

\* C17, amended: the absolute value of the reported optimal correlation
\* equals the maximum absolute value among the defined coefficients
\* scanned; the reported value keeps the sign it was scanned with.
C17_AbsReportedEqualsMaxAbs ==
    pc = "lagged" =>
      \A i \in 1..Len(optimal_lags) :
        LET v == optimal_lags[i].variable
        IN  /\ DefinedWeeks(lag_simple_df, v) # {} =>
                 FAbs(optimal_lags[i].optimal_lag_simple_correlation)
                   = F(MaxAbs(lag_simple_df, v))
            /\ DefinedWeeks(lag_rolling_df, v) # {} =>
                 FAbs(optimal_lags[i].optimal_lag_rolling_correlation)
                   = F(MaxAbs(lag_rolling_df, v))

\* the simple optimum is negative and larger in absolute value than a
\* positive coefficient of the same row; the rolling optimum is positive
C17_Witness ==
    /\ pc = "lagged"
    /\ Len(optimal_lags) > 0
    /\ optimal_lags[1].optimal_lag_simple_correlation = F(-3)
    /\ optimal_lags[1].optimal_lag_simple_weeks = F(1)
    /\ lag_simple_df[1].lags[Len(LAG_RANGE)] = F(2)
    /\ optimal_lags[1].optimal_lag_rolling_correlation = F(3)
    /\ optimal_lags[1].optimal_lag_rolling_weeks = F(Len(LAG_RANGE))

----------------------------------------------------------------------------
(* Claims on the Pipeline Orchestrator *)

Failed == pc = "error"

\* C18: a failure while loading or analysing one city aborts only that
\* city: when main ends, every other city of CITY_ORDER has been analysed
\* and its results recorded.
C18_SiblingsStillAnalysed ==
    Failed =>
      \A city \in CitySet \ { run_error.city } :
        /\ city \in DOMAIN all_city_results
        /\ all_city_results[city] = { ANALYSES[i] : i \in 1..Len(ANALYSES) }

\* C19: when a stage fails for a city, the outputs hold a failure record of
\* that city and none of the result tables its earlier stages wrote.
C19_NoPartialTables ==
    Failed =>
      /\ << run_error.city, "failure" >> \in outputs
      /\ \A i \in 1..Len(ANALYSES) : << run_error.city, ANALYSES[i] >> \notin outputs

\* cluster-count maximum below the minimum, or variance target outside (0, 1]
InvalidConfig(cfg) ==
    \/ cfg.k_max < cfg.k_min
    \/ cfg.variance_target <= 0
    \/ cfg.variance_target > Scale

\* C20: under an invalid configuration no city is loaded, no analysis runs
\* and nothing is written: the run stops at a configuration check.
C20_InvalidConfigRejectedFirst ==
    InvalidConfig(run_config) =>
      /\ city_dataframes = {}
      /\ DOMAIN all_city_results = {}
      /\ outputs = {}
      /\ pc \in {"load", "error"}
      /\ pc = "load" => c_idx = 1
      /\ pc = "error" => run_error.stage = "config"

----------------------------------------------------------------------------
(* Claims on the order of the pipeline's stages *)

StartsAnalysis(a) == pc = "analyse" /\ ANALYSES[stage] = a

AllAnalyses == { ANALYSES[i] : i \in 1..Len(ANALYSES) }

\* the comparison starts only after every city's three analyses returned
ComparisonLast ==
    pc \in { "compare", "finished" } =>
      \A c \in CitySet :
        c \in DOMAIN all_city_results /\ all_city_results[c] = AllAnalyses

\* C26 as stated: within one city the correlation analysis has returned
\* when the lag scan starts, the lag scan has returned when the reduction
\* and cluster selection start, and the comparison starts only after every
\* city's three analyses have returned.
C26_StagesInStatedOrder ==
    /\ StartsAnalysis("lag_rolling") => "statistical" \in run_results
    /\ StartsAnalysis("pca_clustering") => "lag_rolling" \in run_results
    /\ ComparisonLast

\* C26 amended: within one city the correlation analysis has returned when
\* the reduction and cluster selection start, these have returned when the
\* lag scan starts, and the comparison starts only after every city's three
\* analyses have returned.
C26_StagesInCodeOrder ==
    /\ StartsAnalysis("pca_clustering") => "statistical" \in run_results
    /\ StartsAnalysis("lag_rolling") =>
         { "statistical", "pca_clustering" } \subseteq run_results
    /\ ComparisonLast

C26_Witness ==
    /\ pc = "compare"
    /\ DOMAIN all_city_results = CitySet
    /\ \A c \in CitySet : << c, "lag_rolling" >> \in outputs

----------------------------------------------------------------------------
(* Claims on missing outcome columns and on the lag scan of a table *)

\* C21: when an outcome column is missing from the table, analyze excludes
\* that outcome and still processes every outcome that is present: once
\* every outcome has been skipped or analysed it returns without raising,
\* with results for exactly the outcomes the table has.
C21_MissingOutcomeExcluded ==
    (df.columns # TargetSet /\ s_idx > Len(TARGETS)) =>
      /\ pc # "error"
      /\ pc = "analysed" => DOMAIN stat_results = df.columns

HasLagColumn(v, fam, w) == << v, fam, w >> \in lag_df.lag_columns

\* C25: the correlation recorded for offset w of variable v in a family is
\* the one of the column (v, family, w), and is undefined when the table has
\* no such column, whatever other offsets of v have columns.
C25_EntryFromExactColumn ==
    \A target \in DOMAIN lag_results :
      \A fam \in { "simple", "rolling" } :
        LET frame == IF fam = "simple" THEN lag_results[target].lag_simple
                     ELSE lag_results[target].lag_rolling
        IN  \A r \in 1..Len(frame) : \A i \in 1..Len(LAG_RANGE) :
              frame[r].lags[i] =
                IF HasLagColumn(frame[r].variable, fam, LAG_RANGE[i])
                THEN LagCorr(lag_df, target, fam, LAG_RANGE[i])
                ELSE NaN

\* an outcome of the table has been scanned
LagScanDone == pc = "error" \/ DOMAIN lag_results # {}

VariablesWithLagColumns ==
    { v \in LagVariableSet :
        \E fam \in { "simple", "rolling" }, w \in AllWeeks : HasLagColumn(v, fam, w) }

\* C29: the optimal-lag summary has exactly one row for every tracked
\* variable that has a lag column in either family, also for a variable
\* with rolling-window columns only; and a table with simple-lag columns
\* and no rolling-window column is summarised without raising.
C29_OneRowPerLaggedVariable ==
    LagScanDone =>
      /\ ~(Len(lag_simple_df) > 0 /\ Len(lag_rolling_df) = 0)
      /\ Len(optimal_lags) = Cardinality(VariablesWithLagColumns)
      /\ { optimal_lags[r].variable : r \in 1..Len(optimal_lags) }
           = VariablesWithLagColumns

----------------------------------------------------------------------------
(* Claims on the pairwise post-hoc matrix *)

\* entry (i, j) of a post-hoc matrix
DunnEntry(m, i, j) == IF i = j THEN m.diagonal ELSE m.off_diagonal

\* C24: whenever the pairwise post-hoc matrix is produced (omnibus
\* p < 0.05) it is square over the group labels, entry (i, j) equals entry
\* (j, i), and every self-comparison entry (i, i) is undefined rather than a
\* numeric p-value.
C24_SymmetricUndefinedDiagonal ==
    \A target \in DOMAIN test_results :
      LET m == test_results[target].dunn_pvalues
      IN  m # None =>
            /\ FLt(test_results[target].kruskal_p, F(KRUSKAL_ALPHA))
            /\ m.n = df_clustered.optimal_k
            /\ \A i \in 1..m.n, j \in 1..m.n :
                 DunnEntry(m, i, j) = DunnEntry(m, j, i)
            /\ \A i \in 1..m.n : DunnEntry(m, i, i).nan

----------------------------------------------------------------------------
(* Claims on the feature classifier *)

GroupNames == { "temperature", "rainfall", "ndvi", "demographic" }

SeqSet(q) == { q[i] : i \in 1..Len(q) }

RECURSIVE SumLen(_, _)
SumLen(f, S) ==
    IF S = {} THEN 0
    ELSE LET g == CHOOSE x \in S : TRUE IN Len(f[g]) + SumLen(f, S \ {g})

\* C23: every column returned by get_feature_columns is placed by
\* get_feature_groups in exactly one of the four groups, never in two and
\* never in none, so the group sizes sum to the number of features.
C23_ExactlyOneGroup ==
    pc = "classified" =>
      /\ \A col \in SeqSet(feature_cols) :
           Cardinality({ g \in GroupNames : col \in SeqSet(groups[g]) }) = 1
      /\ SumLen(groups, GroupNames) = Len(feature_cols)

----------------------------------------------------------------------------
(* Claims on the random state of the plot *)

FromConfiguredSeed(stream) == stream = << "seed", RANDOM_SEED >>

\* C27: every randomized step of analyze (PCA, k-means, the t-SNE embedding
\* and the row subsampling before it) draws from the configured
\* RANDOM_SEED; none reads or advances the global random-number state.
C27_AllStepsSeeded ==
    /\ \A r \in Runs :
         /\ FromConfiguredSeed(RngStream(PCARandomState, r))
         /\ FromConfiguredSeed(RngStream(KMeansRandomState, r))
    /\ pc = "plotted" =>
         \A r \in Runs :
           /\ FromConfiguredSeed(tsne_plot[r].tsne_stream)
           /\ tsne_plot[r].sample.sampled =>
                FromConfiguredSeed(tsne_plot[r].sample.stream)

----------------------------------------------------------------------------
(* Claims on one analyzer instance *)

\* C22: with one instance analysing several cities in sequence, what
\* save_city_outputs(c) persists in c's directory is the results computed
\* from c's own table, whatever was analysed before or after c.
C22_CityOutputsAreOwn ==
    \A c \in DOMAIN files \cap InstanceCities : files[c].city_key = c

OutputOps ==
    { "generate_methods_section", "generate_results_section", "save_outputs" }

\* C30: before any analyze call has completed the three output operations
\* raise ValueError and write nothing, and an analyze call that raises leaves
\* the results attribute as it was.
C30_NoOutputBeforeAnalyze ==
    /\ [](completed = 0 =>
            /\ files = << >>
            /\ raised.op \in OutputOps => raised.exc = "ValueError")
    /\ [][(raised'.op = "analyze" /\ raised'.exc # NoException) =>
            self_results' = self_results]_vars

----------------------------------------------------------------------------
(* Claims on the data-file maintenance tool *)

\* the branch of lines 54-59 leaves the data file alone, removes the backup
\* and returns True
AbsentColumnStep ==
    (pc = "rm_check" /\ UNNAMED \notin csv_columns) =>
       /\ data_file' = data_file
       /\ backup' = MissingFile
       /\ returned' = "True"

====
